---- MODULE Spec2Model ----
(***************************************************************************)
(* Model of DICe::Schema (src/src/core/DICe_Schema.cpp): the distribution  *)
(* maps built by Schema::initialize (create_obstruction_dist_map and       *)
(* create_seed_dist_map), and the per-frame execution of the correlation   *)
(* pipeline (execute_correlation / generic_correlation_routine).           *)
(***************************************************************************)
EXTENDS Integers, Sequences, FiniteSets, TLC

\* ------------------------------------------------------------------------
\* Bounds of the model
\* ------------------------------------------------------------------------
MaxPoints == 3      \* points of the partitioner and tracking specifications
WidePoints == 4     \* points of the wide occlusion-map specification
MaxProcs == 2       \* workers
MaxFrames == 3      \* frames executed
MaxInitCalls == 2   \* calls of initialize() on one schema
ScanPoints == 2     \* points of the statement-by-statement specification

VARIABLES
  \* construction (the constructors, set_params, the image setters)
  asserts_on,               \* whether the build keeps assert() (no NDEBUG)
  params_given,             \* the parameter list as the caller wrote it
  def_image_rotation_,
  ref_img_,                 \* <<width, height>> of the reference image
  def_img_,                 \* <<width, height>> of the deformed image
  setup_error,              \* the fatal error that ended setup, or "none"
  ref_img_name,             \* which image ref_img_ holds
  def_img_name,             \* which image def_img_ holds
  prev_img_,                \* which image prev_img_ holds
  phase_cor_images,         \* the two images of the last phase_correlate_x_y call
  frame_def_img,            \* the deformed image of the last finished frame
  pc,                       \* position in the life of the schema
  num_pts,                  \* argument of initialize(): number of points N
  data_num_points_,         \* number of points held by the schema
  num_procs,                \* comm_->get_size()
  obstructing_subset_ids_,  \* [isNull, map]: point id -> blocker ids
  neighbor_ids,             \* [isNull, ids]: argument of initialize()
  is_initialized_,
  subset_dim_,              \* the subset size initialize() stored, -1 before
  initialize_calls,         \* the arguments of the initialize() calls so far
  dist_map_,                \* proc -> local element list (sequence of ids)
  all_map_,                 \* local element list held by every proc
  seed_dist_map_,           \* proc -> local element list
  obstruction_groups,       \* the groups built by create_obstruction_dist_map
  local_seed_groupings,     \* proc -> the chains built by create_seed_dist_map
  \* parameters and per-point side tables (set_params and the setters)
  correlation_routine_,
  initialization_method_,
  optimization_method_,
  initial_gamma_threshold_,
  final_gamma_threshold_,
  path_distance_threshold_,
  path_file_names_,         \* ids with a path file
  skip_solve_flags_,        \* ids flagged true
  motion_window_params_,    \* id -> use_subset_id_ (-1: its own window)
  post_processors_,         \* number of attached post-processors
  projection_method_,       \* "DISPLACEMENT_BASED" | "VELOCITY_BASED"
  env,                      \* what the collaborators may do: "nominal" | "any"
  \* execution
  image_frame_,
  target_field_descriptor_,
  this_proc_subset_global_ids_,  \* proc -> active local id list
  motion_detectors_,        \* proc -> ids whose motion detector exists
  detectors_at_start,       \* proc -> the detectors that existed when the frame began
  detector_log,             \* proc -> resets and tests of detectors in this frame
  frame_log,                \* the steps of the current execute_correlation call
  subset_index,             \* proc -> number of local points already processed
  obj_vec_,                 \* proc -> ids of the static objectives (tracking)
  fields_,                  \* replicated store: id -> field record
  local_fields,             \* proc -> (id -> field record), the worker's store
  phase_cor_u,              \* <<phase_cor_u_x_, phase_cor_u_y_>>
  opt_initializers_,        \* ids whose path initializer exists
  pass_frame,               \* proc -> (id -> frame of its last completed pass)
  last_pass,                \* what the last pipeline pass did
  last_mask,                \* what the last check_for_blocking_subsets read
  pixels_blocked_by_other_subsets, \* proc -> blocked pixels of each static objective
  local_fields_nm1,         \* proc -> (id -> field record of the frame before)
  \* a create_obstruction_dist_map call followed statement by statement
  obst_locals               \* its position (at) and its local variables

setupVars == <<asserts_on, params_given, def_image_rotation_,
               ref_img_, def_img_, setup_error>>

partVars == <<num_pts, data_num_points_, num_procs, obstructing_subset_ids_, neighbor_ids,
              is_initialized_, dist_map_, all_map_, seed_dist_map_,
              obstruction_groups, local_seed_groupings>>

cfgVars == <<correlation_routine_, initialization_method_, optimization_method_,
             initial_gamma_threshold_, final_gamma_threshold_, path_distance_threshold_,
             path_file_names_, skip_solve_flags_, motion_window_params_,
             post_processors_, projection_method_, env>>

execVars == <<image_frame_, target_field_descriptor_, this_proc_subset_global_ids_,
              motion_detectors_, detectors_at_start, detector_log, frame_log,
              subset_index, obj_vec_, fields_,
              local_fields, phase_cor_u, opt_initializers_, pass_frame, last_pass,
              last_mask, pixels_blocked_by_other_subsets, local_fields_nm1>>

initVars == <<subset_dim_, initialize_calls>>

imgVars == <<ref_img_name, def_img_name, prev_img_, phase_cor_images, frame_def_img>>

scanVars == <<obst_locals>>

vars == <<pc, setupVars, imgVars, initVars, partVars, cfgVars, execVars, scanVars>>

\* ------------------------------------------------------------------------
\* Helpers on sets and sequences
\* ------------------------------------------------------------------------
Ids(n) == 0 .. (n - 1)
Procs(p) == 0 .. (p - 1)

SetMin(S) == CHOOSE x \in S : \A y \in S : x <= y

\* iteration order of a std::set<int_t>: ascending
RECURSIVE SortedSeq(_)
SortedSeq(S) ==
  IF S = {} THEN <<>>
  ELSE LET x == SetMin(S) IN <<x>> \o SortedSeq(S \ {x})

SeqToSet(s) == { s[i] : i \in 1 .. Len(s) }

Reverse(s) == [ i \in 1 .. Len(s) |-> s[Len(s) + 1 - i] ]

NullMap == [isNull |-> TRUE, map |-> <<>>]
NullNeighbors == [isNull |-> TRUE, ids |-> <<>>]
EmptyList == [name \in {} |-> ""]
NullParams == [isNull |-> TRUE, list |-> EmptyList]

\* ------------------------------------------------------------------------
\* Schema::create_obstruction_dist_map
\* ------------------------------------------------------------------------

\* the search_it loop (lines 646-667) for the current element dep of the
\* dependency set; st = [deps, elig, assigned, dep]
RECURSIVE SearchLoop(_, _, _, _)
SearchLoop(m, keys, si, st) ==
  IF si > Len(keys) THEN st
  ELSE
    LET key == keys[si] IN
    IF key \in st.assigned THEN SearchLoop(m, keys, si + 1, st)
    ELSE
      LET match_found == (st.dep = key) \/ (st.dep \in m[key]) IN
      IF match_found
      THEN LET newdeps == st.deps \cup {key} \cup m[key] IN
           SearchLoop(m, keys, si + 1,
             [deps     |-> newdeps,
              elig     |-> (st.elig \ {key}) \ m[key],
              assigned |-> st.assigned \cup {key},
              dep      |-> SetMin(newdeps)])   \* dep_it = dependencies.begin()
      ELSE SearchLoop(m, keys, si + 1, st)

\* the dep_it loop (lines 644-668): scan for st.dep, then ++dep_it
RECURSIVE DepLoop(_, _, _)
DepLoop(m, keys, st) ==
  LET after == SearchLoop(m, keys, 1, st)
      rest  == { d \in after.deps : d > after.dep }
  IN IF rest = {} THEN after
     ELSE DepLoop(m, keys, [after EXCEPT !.dep = SetMin(rest)])

\* the map_it loop (lines 627-670); acc = [elig, assigned, groups]
RECURSIVE GroupLoop(_, _, _, _)
GroupLoop(m, keys, mi, acc) ==
  IF mi > Len(keys) THEN acc
  ELSE
    LET key == keys[mi] IN
    IF key \in acc.assigned THEN GroupLoop(m, keys, mi + 1, acc)
    ELSE
      LET deps0 == {key} \cup m[key]
          st == DepLoop(m, keys,
                  [deps     |-> deps0,
                   elig     |-> acc.elig \ deps0,
                   assigned |-> acc.assigned,
                   dep      |-> SetMin(deps0)])
      IN GroupLoop(m, keys, mi + 1,
           [elig     |-> st.elig,
            assigned |-> st.assigned,
            groups   |-> Append(acc.groups, st.deps)])

ObstructionGrouping(n, m) ==
  GroupLoop(m, SortedSeq(DOMAIN m), 1,
    [elig |-> Ids(n), assigned |-> {}, groups |-> <<>>])

\* a round-robin that deals single ids instead of whole groups
RoundRobinSplitsGroups(groups, g, np, local) ==
  LET all == UNION { groups[i] : i \in 1 .. Len(groups) } IN
  [p \in DOMAIN local |-> local[p] \cup { id \in all : id % np = p }]

\* lines 686-699: groups handed out round-robin, a whole group at a time
RECURSIVE RoundRobin(_, _, _, _)
RoundRobin(groups, g, np, local) ==
  IF g > Len(groups) THEN local
  ELSE LET p_id == (g - 1) % np IN
       RoundRobin(groups, g + 1, np,
         [local EXCEPT ![p_id] = local[p_id] \cup groups[g]])

\* lines 702-709: the proc holding the fewest ids (the last one on a tie)
RECURSIVE FewestLoop(_, _, _, _, _)
FewestLoop(local, np, i, lowest, proc) ==
  IF i >= np THEN proc
  ELSE IF Cardinality(local[i]) <= lowest
       THEN FewestLoop(local, np, i + 1, Cardinality(local[i]), i)
       ELSE FewestLoop(local, np, i + 1, lowest, proc)

\* lines 700-711: the eligible ids, one at a time in ascending order
RECURSIVE Greedy(_, _, _, _, _)
Greedy(eligSeq, e, np, n, local) ==
  IF e > Len(eligSeq) THEN local
  ELSE LET proc_with_fewest_subsets == FewestLoop(local, np, 0, n, 0) IN
       Greedy(eligSeq, e + 1, np, n,
         [local EXCEPT ![proc_with_fewest_subsets] = @ \cup {eligSeq[e]}])

LocalSubsetIds(n, np, m) ==
  LET g == ObstructionGrouping(n, m)
      rr == RoundRobin(g.groups, 1, np, [p \in Procs(np) |-> {}])
  IN Greedy(SortedSeq(g.elig), 1, np, n, rr)

HasBlockers(m, id) == id \in DOMAIN m /\ m[id] # {}

\* an ordering by ascending id alone
OrderLocalIdsAscending(m, S) == SortedSeq(S)

\* an ordering that puts the ids with blockers first
OrderLocalIdsBlockedFirst(m, S) ==
  SortedSeq({ id \in S : HasBlockers(m, id) })
    \o SortedSeq({ id \in S : ~HasBlockers(m, id) })

\* lines 712-734: ids without blockers first, then the ids with blockers
OrderLocalIds(m, S) ==
  SortedSeq({ id \in S : ~HasBlockers(m, id) })
    \o SortedSeq({ id \in S : HasBlockers(m, id) })

ObstructionLocalIds(n, np, m) ==
  LET local == LocalSubsetIds(n, np, m) IN
  [p \in Procs(np) |-> OrderLocalIds(m, local[p])]

\* MultiField_Map(data_num_points_,0,*comm_): the evenly distributed map,
\* contiguous blocks of ids, the first (n % np) procs holding one more id
DefaultDistMap(n, np) ==
  [p \in Procs(np) |->
     LET q == n \div np
         r == n % np
         first == p * q + (IF p < r THEN p ELSE r)
         cnt == q + (IF p < r THEN 1 ELSE 0)
     IN [i \in 1 .. cnt |-> first + i - 1]]

AllOwnedList(n) == [i \in 1 .. n |-> i - 1]

\* result of create_obstruction_dist_map given the maps built so far:
\* [dist, all, groups]
create_obstruction_dist_map(n, np, obst, dist, all) ==
  IF obst.isNull THEN [dist |-> dist, all |-> all, groups |-> <<>>]
  ELSE LET local_ids == ObstructionLocalIds(n, np, obst.map) IN
       [dist   |-> local_ids,
        all    |-> IF np = 1 THEN local_ids[0] ELSE all,
        groups |-> ObstructionGrouping(n, obst.map).groups]

\* ------------------------------------------------------------------------
\* Schema::create_seed_dist_map
\* ------------------------------------------------------------------------

\* lines 790-797: scan the ids from the highest to the lowest, closing the
\* current grouping at every seed; acc = [this_group_gids, seed_groupings]
RECURSIVE SeedScan(_, _, _)
SeedScan(nb, i, acc) ==
  IF i < 0 THEN acc.seed_groupings
  ELSE LET grp == Append(acc.this_group_gids, i) IN
       IF nb[i] = -1
       THEN SeedScan(nb, i - 1,
              [this_group_gids |-> <<>>,
               seed_groupings  |-> Append(acc.seed_groupings, grp)])
       ELSE SeedScan(nb, i - 1,
              [this_group_gids |-> grp,
               seed_groupings  |-> acc.seed_groupings])

SeedGroupings(n, nb) ==
  SeedScan(nb, n - 1, [this_group_gids |-> <<>>, seed_groupings |-> <<>>])

\* a round-robin that forgets to reverse the groupings
RECURSIVE SeedRoundRobinNoReverse(_, _, _, _)
SeedRoundRobinNoReverse(groupings, g, np, local) ==
  IF g > Len(groupings) THEN local
  ELSE LET p_id == (g - 1) % np IN
       SeedRoundRobinNoReverse(groupings, g + 1, np,
         [local EXCEPT ![p_id] = Append(@, groupings[g])])

\* lines 800-815: the groupings handed out round-robin, each reversed so that
\* it runs from the seed out
RECURSIVE SeedRoundRobin(_, _, _, _)
SeedRoundRobin(groupings, g, np, local) ==
  IF g > Len(groupings) THEN local
  ELSE LET p_id == (g - 1) % np IN
       SeedRoundRobin(groupings, g + 1, np,
         [local EXCEPT ![p_id] = Append(@, Reverse(groupings[g]))])

LocalSeedGroupings(n, np, nb) ==
  SeedRoundRobin(SeedGroupings(n, nb), 1, np, [p \in Procs(np) |-> <<>>])

\* lines 823-829: concatenation of the local groupings
RECURSIVE Concat(_, _)
Concat(ss, i) ==
  IF i > Len(ss) THEN <<>> ELSE ss[i] \o Concat(ss, i + 1)

\* [seed, chains]
\* a seed map that builds the chains whenever neighbor ids are supplied
create_seed_dist_map_ignores_obstructions(n, np, obst, nbs, dist) ==
  IF nbs.isNull
  THEN [seed |-> dist, chains |-> [p \in Procs(np) |-> <<>>]]
  ELSE LET local == LocalSeedGroupings(n, np, nbs.ids) IN
       [seed   |-> [p \in Procs(np) |-> Concat(local[p], 1)],
        chains |-> local]

create_seed_dist_map(n, np, obst, nbs, dist) ==
  IF nbs.isNull
  THEN [seed |-> dist, chains |-> [p \in Procs(np) |-> <<>>]]
  ELSE IF ~obst.isNull /\ DOMAIN obst.map # {}
  THEN [seed |-> dist, chains |-> [p \in Procs(np) |-> <<>>]]
  ELSE LET local == LocalSeedGroupings(n, np, nbs.ids) IN
       [seed   |-> [p \in Procs(np) |-> Concat(local[p], 1)],
        chains |-> local]

\* ------------------------------------------------------------------------
\* Field records and the values the collaborators hand back
\* ------------------------------------------------------------------------
DeformationFields ==
  {"DISPLACEMENT_X", "DISPLACEMENT_Y", "ROTATION_Z",
   "NORMAL_STRAIN_X", "NORMAL_STRAIN_Y", "SHEAR_STRAIN_XY"}

FieldIndex(f) ==
  CASE f = "DISPLACEMENT_X" -> 1
    [] f = "DISPLACEMENT_Y" -> 2
    [] f = "ROTATION_Z" -> 3
    [] f = "NORMAL_STRAIN_X" -> 4
    [] f = "NORMAL_STRAIN_Y" -> 5
    [] f = "SHEAR_STRAIN_XY" -> 6

\* std::vector<scalar_t>(DICE_DEFORMATION_SIZE,0.0)
ZeroDeformation == [f \in DeformationFields |-> 0]

\* a row of MultiField(all_map_,MAX_FIELD_NAME,true): every field zero
ZeroFields ==
  [DISPLACEMENT_X |-> 0, DISPLACEMENT_Y |-> 0, ROTATION_Z |-> 0,
   NORMAL_STRAIN_X |-> 0, NORMAL_STRAIN_Y |-> 0, SHEAR_STRAIN_XY |-> 0,
   SIGMA |-> 0, MATCH |-> 0, GAMMA |-> 0, STATUS_FLAG |-> "UNSET", ITERATIONS |-> 0]

\* the guess an initializer writes in a frame, and the fit an optimizer writes:
\* six distinct components, different in every frame and for every method
GuessDeformation(frame) ==
  [f \in DeformationFields |-> 100 * (frame + 1) + 50 + FieldIndex(f)]

FitDeformation(frame, method) ==
  [f \in DeformationFields |->
     100 * (frame + 1) + (IF method = "computeUpdateFast" THEN 10 ELSE 20) + FieldIndex(f)]

IterationsOf(method) == IF method = "computeUpdateFast" THEN 4 ELSE 6

\* results of a collaborator call: one of the values, or (in the "any"
\* environment) a computational fault raised as std::logic_error
Results(nominal, other) ==
  { [fault |-> FALSE, value |-> v] : v \in nominal }
    \cup (IF env = "any"
          THEN { [fault |-> FALSE, value |-> v] : v \in other }
                 \cup { [fault |-> TRUE, value |-> CHOOSE v \in nominal : TRUE] }
          ELSE {})

MotionResults == Results({"motion"}, {"no_motion"})
PathGammaResults == Results({0}, {10})
ObjInitResults(success) == Results({success}, {"INITIALIZE_FAILED"})
OptimizerResults == Results({"CORRELATION_SUCCESSFUL"}, {"CORRELATION_FAILED"})
GammaResults == Results({2}, {10})
SigmaResults == Results({1}, {})
PathDistanceResults == Results({1}, {9})
PhaseOffsets == {<<1, 2>>}

Thresholds == {-1, 5}

InitializationMethods ==
  {"USE_FIELD_VALUES", "USE_NEIGHBOR_VALUES", "USE_NEIGHBOR_VALUES_FIRST_STEP_ONLY",
   "USE_PHASE_CORRELATION"}

OptimizationMethods ==
  {"GRADIENT_BASED", "SIMPLEX", "GRADIENT_BASED_THEN_SIMPLEX",
   "SIMPLEX_THEN_GRADIENT_BASED"}

SuccessStatuses ==
  {"CORRELATION_SUCCESSFUL", "INITIALIZE_SUCCESSFUL",
   "INITIALIZE_USING_PREVIOUS_FRAME_SUCCESSFUL",
   "INITIALIZE_USING_NEIGHBOR_VALUE_SUCCESSFUL"}

FailureStatuses ==
  {"INITIALIZE_FAILED", "INITIALIZE_FAILED_BY_EXCEPTION", "CORRELATION_FAILED",
   "CORRELATION_FAILED_BY_EXCEPTION", "FRAME_FAILED_DUE_TO_HIGH_GAMMA",
   "FRAME_FAILED_DUE_TO_HIGH_PATH_DISTANCE"}

\* ------------------------------------------------------------------------
\* Schema::record_failed_step, Schema::record_step
\* ------------------------------------------------------------------------

\* a record_failed_step that also clears the displacement
record_failed_step_clears(rec, status, num_iterations) ==
  [rec EXCEPT !.DISPLACEMENT_X = 0, !.DISPLACEMENT_Y = 0,
              !.SIGMA = -1, !.MATCH = -1, !.GAMMA = -1,
              !.STATUS_FLAG = status, !.ITERATIONS = num_iterations]

record_failed_step(rec, status, num_iterations) ==
  [rec EXCEPT !.SIGMA = -1, !.MATCH = -1, !.GAMMA = -1,
              !.STATUS_FLAG = status, !.ITERATIONS = num_iterations]

\* an index slip: the rotation is taken from the x displacement
record_step_wrong_index(rec, deformation, sigma, match, gamma, status, num_iterations) ==
  [rec EXCEPT !.DISPLACEMENT_X = deformation.DISPLACEMENT_X,
              !.DISPLACEMENT_Y = deformation.DISPLACEMENT_Y,
              !.NORMAL_STRAIN_X = deformation.NORMAL_STRAIN_X,
              !.NORMAL_STRAIN_Y = deformation.NORMAL_STRAIN_Y,
              !.SHEAR_STRAIN_XY = deformation.SHEAR_STRAIN_XY,
              !.ROTATION_Z = deformation.DISPLACEMENT_X,
              !.SIGMA = sigma, !.MATCH = match, !.GAMMA = gamma,
              !.STATUS_FLAG = status, !.ITERATIONS = num_iterations]

record_step(rec, deformation, sigma, match, gamma, status, num_iterations) ==
  [rec EXCEPT !.DISPLACEMENT_X = deformation.DISPLACEMENT_X,
              !.DISPLACEMENT_Y = deformation.DISPLACEMENT_Y,
              !.NORMAL_STRAIN_X = deformation.NORMAL_STRAIN_X,
              !.NORMAL_STRAIN_Y = deformation.NORMAL_STRAIN_Y,
              !.SHEAR_STRAIN_XY = deformation.SHEAR_STRAIN_XY,
              !.ROTATION_Z = deformation.ROTATION_Z,
              !.SIGMA = sigma, !.MATCH = match, !.GAMMA = gamma,
              !.STATUS_FLAG = status, !.ITERATIONS = num_iterations]

\* no call of record_step in the pass (so far)
NoArgs ==
  [called |-> FALSE, deformation |-> ZeroDeformation, sigma |-> 0, match |-> 0,
   gamma |-> 0, status |-> "UNSET", num_iterations |-> 0]

\* ------------------------------------------------------------------------
\* Schema::generic_correlation_routine: the stages of one pipeline pass.
\* st = [rec, deformation, init_status, corr_status, num_iterations,
\*       initial_gamma, events, opt_init]; every stage yields the set of
\* ways the pass can end from there: [ended, rec, events, opt_init]
\* ------------------------------------------------------------------------
Ev(st, name, result) == [st EXCEPT !.events = Append(@, <<name, result>>)]

Returned(st) ==
  [ended |-> "returned", rec |-> st.rec, events |-> st.events, opt_init |-> st.opt_init,
   initial_gamma |-> st.initial_gamma, args |-> st.args,
   guess_gamma |-> st.guess_gamma, final_gamma |-> st.final_gamma,
   saved |-> st.saved, nm1 |-> st.nm1]

\* the exception leaves generic_correlation_routine
Threw(st, call) ==
  [ended |-> "threw", rec |-> st.rec,
   events |-> Append(st.events, <<call, "fault">>), opt_init |-> st.opt_init,
   initial_gamma |-> st.initial_gamma, args |-> st.args,
   guess_gamma |-> st.guess_gamma, final_gamma |-> st.final_gamma,
   saved |-> st.saved, nm1 |-> st.nm1]

FailedStep(st, status) ==
  Returned(Ev([st EXCEPT !.rec = record_failed_step(st.rec, status, st.num_iterations)],
              "record_failed_step", status))

FieldBased ==
  \/ initialization_method_ = "USE_FIELD_VALUES"
  \/ (initialization_method_ = "USE_NEIGHBOR_VALUES_FIRST_STEP_ONLY" /\ image_frame_ > 0)

PhaseGuess(st) ==
  [st.deformation EXCEPT
     !.DISPLACEMENT_X = phase_cor_u[1] + st.rec.DISPLACEMENT_X,
     !.DISPLACEMENT_Y = phase_cor_u[2] + st.rec.DISPLACEMENT_Y,
     !.ROTATION_Z = st.rec.ROTATION_Z]

\* a call of record_step with the deformation and iteration count of the
\* pass; args keeps the arguments of the call
RecordStep(st, sigma, match, gamma, status) ==
  Returned(Ev([st EXCEPT
                 !.rec = record_step(st.rec, st.deformation, sigma, match, gamma,
                                     status, st.num_iterations),
                 !.args = [called |-> TRUE, deformation |-> st.deformation,
                           sigma |-> sigma, match |-> match, gamma |-> gamma,
                           status |-> status, num_iterations |-> st.num_iterations]],
              "record_step", status))

\* Schema::save_off_fields: the field values of the point as they stand
save_off_fields(rec) == rec

\* a commit that stores the fit first and takes the snapshot afterwards
CommitSavesAfter(gid, st, sigma, gamma) ==
  LET out == RecordStep(st, sigma, 0, gamma, st.init_status) IN
  { IF projection_method_ = "VELOCITY_BASED"
    THEN [out EXCEPT !.saved = TRUE, !.nm1 = save_off_fields(out.rec)]
    ELSE out }

\* lines 1284-1285: success
Commit(gid, st, sigma, gamma) ==
  LET saved == IF projection_method_ = "VELOCITY_BASED"
               THEN [st EXCEPT !.saved = TRUE, !.nm1 = save_off_fields(st.rec)]
               ELSE st
  IN { RecordStep(saved, sigma, 0, gamma, st.init_status) }

\* lines 1263-1279
PathDistanceGate(gid, st, sigma, gamma) ==
  IF path_distance_threshold_ # -1 /\ gid \in path_file_names_
  THEN UNION { IF d.fault THEN { Threw(st, "closest_triad") }
               ELSE IF d.value > path_distance_threshold_
               THEN { FailedStep(Ev(st, "closest_triad", "returned"),
                                 "FRAME_FAILED_DUE_TO_HIGH_PATH_DISTANCE") }
               ELSE Commit(gid, Ev(st, "closest_triad", "returned"), sigma, gamma)
             : d \in PathDistanceResults }
  ELSE Commit(gid, st, sigma, gamma)

\* a rejection that leaves the displacement alone under every strategy
HighGammaNoOffset(st) == FailedStep(st, "FRAME_FAILED_DUE_TO_HIGH_GAMMA")

\* lines 1253-1258: the final gamma is too high
HighGamma(st) ==
  LET kept == IF initialization_method_ = "USE_PHASE_CORRELATION"
              THEN [st EXCEPT !.rec.DISPLACEMENT_X = @ + phase_cor_u[1],
                              !.rec.DISPLACEMENT_Y = @ + phase_cor_u[2]]
              ELSE st
  IN FailedStep(kept, "FRAME_FAILED_DUE_TO_HIGH_GAMMA")

\* lines 1247-1259
FinalGammaGate(gid, st) ==
  UNION { IF g.fault THEN { Threw(st, "gamma") }
          ELSE UNION { IF s.fault THEN { Threw(Ev(st, "gamma", "returned"), "sigma") }
                       ELSE LET st2 == Ev(Ev([st EXCEPT !.final_gamma = g.value],
                                                 "gamma", "returned"), "sigma", "returned") IN
                            IF final_gamma_threshold_ # -1 /\ g.value > final_gamma_threshold_
                            THEN { HighGamma(st2) }
                            ELSE PathDistanceGate(gid, st2, s.value, g.value)
                     : s \in SigmaResults }
        : g \in GammaResults }

\* one optimizer call inside its try block (lines 1177-1182, 1185-1190,
\* 1209-1214, 1232-1237): the states after the call
RunOptimizer(st, method) ==
  { IF r.fault
    THEN Ev([st EXCEPT !.corr_status = "CORRELATION_FAILED_BY_EXCEPTION"], method, "fault")
    ELSE Ev([st EXCEPT !.corr_status = r.value,
                       !.deformation = FitDeformation(image_frame_, method),
                       !.num_iterations = IterationsOf(method)], method, r.value)
  : r \in OptimizerResults }

\* what a field-reading initializer returns when called again in the same
\* pass: the fields it reads have not changed since its first call, so it
\* returns what it returned then
Earlier(st, call) ==
  { st.events[i][2] : i \in { j \in DOMAIN st.events : st.events[j][1] = call } }

ReInitResults(st, call, success) ==
  IF Earlier(st, call) # {}
  THEN { [fault |-> FALSE, value |-> v] : v \in Earlier(st, call) }
  ELSE ObjInitResults(success)

\* lines 1199-1208, 1222-1231: the initial guess recomputed before the retry,
\* outside any try block; [threw, st]
ReInitialize(st) ==
  IF FieldBased
  THEN { IF r.fault THEN [threw |-> TRUE, st |-> st]
         ELSE [threw |-> FALSE,
               st |-> Ev([st EXCEPT !.init_status = r.value,
                                    !.deformation = GuessDeformation(image_frame_)],
                         "initialize_from_previous_frame", r.value)]
       : r \in ReInitResults(st, "initialize_from_previous_frame",
                             "INITIALIZE_USING_PREVIOUS_FRAME_SUCCESSFUL") }
  ELSE IF initialization_method_ = "USE_PHASE_CORRELATION"
  THEN { [threw |-> FALSE,
          st |-> Ev([st EXCEPT !.deformation = PhaseGuess(st),
                               !.init_status = "INITIALIZE_SUCCESSFUL"],
                    "phase_correlation_guess", "INITIALIZE_SUCCESSFUL")] }
  ELSE { IF r.fault THEN [threw |-> TRUE, st |-> st]
         ELSE [threw |-> FALSE,
               st |-> Ev([st EXCEPT !.init_status = r.value,
                                    !.deformation = GuessDeformation(image_frame_)],
                         "initialize_from_neighbor", r.value)]
       : r \in ReInitResults(st, "initialize_from_neighbor",
                             "INITIALIZE_USING_NEIGHBOR_VALUE_SUCCESSFUL") }

\* lines 1197-1242: the other method, once
Retry(gid, st, method) ==
  UNION { IF i.threw
          THEN { Threw(i.st, IF FieldBased THEN "initialize_from_previous_frame"
                             ELSE "initialize_from_neighbor") }
          ELSE UNION { IF st2.corr_status # "CORRELATION_SUCCESSFUL"
                       THEN { FailedStep(st2, st2.corr_status) }
                       ELSE FinalGammaGate(gid, st2)
                     : st2 \in RunOptimizer(i.st, method) }
        : i \in ReInitialize(st) }

\* an optimize stage that retries after every failed first call
OptimizeRetriesAlways(gid, st) ==
  LET first == IF optimization_method_ \in {"GRADIENT_BASED", "GRADIENT_BASED_THEN_SIMPLEX"}
               THEN "computeUpdateFast" ELSE "computeUpdateRobust"
  IN UNION { IF st1.corr_status # "CORRELATION_SUCCESSFUL"
             THEN IF first = "computeUpdateFast"
                  THEN Retry(gid, st1, "computeUpdateRobust")
                  ELSE Retry(gid, st1, "computeUpdateFast")
             ELSE FinalGammaGate(gid, st1)
           : st1 \in RunOptimizer(st, first) }

\* lines 1176-1243
Optimize(gid, st) ==
  LET first == IF optimization_method_ \in {"GRADIENT_BASED", "GRADIENT_BASED_THEN_SIMPLEX"}
               THEN "computeUpdateFast" ELSE "computeUpdateRobust"
  IN UNION { IF st1.corr_status # "CORRELATION_SUCCESSFUL"
             THEN IF optimization_method_ \in {"SIMPLEX", "GRADIENT_BASED"}
                  THEN { FailedStep(st1, st1.corr_status) }
                  ELSE IF optimization_method_ = "GRADIENT_BASED_THEN_SIMPLEX"
                  THEN Retry(gid, st1, "computeUpdateRobust")
                  ELSE Retry(gid, st1, "computeUpdateFast")
             ELSE FinalGammaGate(gid, st1)
           : st1 \in RunOptimizer(st, first) }

\* an initial-gamma gate that lets every guess through
InitialGammaGateOpen(gid, st) == Optimize(gid, st)

\* lines 1165-1170
InitialGammaGate(gid, st) ==
  IF initial_gamma_threshold_ # -1 /\ st.initial_gamma > initial_gamma_threshold_
  THEN { FailedStep(st, "INITIALIZE_FAILED") }
  ELSE Optimize(gid, st)

\* lines 1153-1161
SkipSolve(gid, st) ==
  IF gid \in skip_solve_flags_
  THEN UNION { IF s.fault THEN { Threw(st, "sigma") }
               ELSE LET st1 == Ev(st, "sigma", "returned")
                        done(stx, gam) == RecordStep(stx, s.value, 0, gam, "FRAME_SKIPPED")
                    IN IF st.initial_gamma = 0
                       THEN { IF g.fault THEN Threw(st1, "gamma")
                              ELSE done(Ev(st1, "gamma", "returned"), g.value)
                            : g \in GammaResults }
                       ELSE { done(st1, st.initial_gamma) }
             : s \in SigmaResults }
  ELSE InitialGammaGate(gid, st)

\* lines 1145-1148
InitCheck(gid, st) ==
  IF st.init_status = "INITIALIZE_FAILED"
  THEN { FailedStep(st, "INITIALIZE_FAILED") }
  ELSE SkipSolve(gid, st)

\* lines 1139-1140: the catch block of the initial guess
InitCaught(st, call) ==
  FailedStep(Ev(st, call, "fault"), "INITIALIZE_FAILED_BY_EXCEPTION")

\* the gamma the objective has at a guess that no path initializer made:
\* the routine does not evaluate it; it matters where a threshold is set
GuessGammas ==
  IF env = "any" /\ initial_gamma_threshold_ # -1 THEN {0, 10} ELSE {0}

\* lines 1084-1141
InitialGuess(gid, st0) ==
  LET has_path_file == gid \in path_file_names_
      global_path_search_required == st0.rec.SIGMA = -1 \/ image_frame_ = 0
      st == [st0 EXCEPT !.opt_init = @ \/ has_path_file]
  IN IF has_path_file
     THEN LET call == IF global_path_search_required
                      THEN "initial_guess_global" ELSE "initial_guess_local" IN
          UNION { IF r.fault THEN { InitCaught(st, call) }
                  ELSE InitCheck(gid, Ev([st EXCEPT !.initial_gamma = r.value,
                                                    !.guess_gamma = r.value,
                                                    !.deformation = GuessDeformation(image_frame_)],
                                         call, "returned"))
                : r \in PathGammaResults }
     ELSE IF FieldBased
     THEN UNION { IF r.fault THEN { InitCaught(st, "initialize_from_previous_frame") }
                  ELSE UNION { InitCheck(gid, Ev([st EXCEPT !.init_status = r.value,
                                                            !.guess_gamma = gg,
                                                            !.deformation = GuessDeformation(image_frame_)],
                                                 "initialize_from_previous_frame", r.value))
                             : gg \in GuessGammas }
                : r \in ObjInitResults("INITIALIZE_USING_PREVIOUS_FRAME_SUCCESSFUL") }
     ELSE IF initialization_method_ = "USE_PHASE_CORRELATION"
     THEN UNION { InitCheck(gid, Ev([st EXCEPT !.deformation = PhaseGuess(st),
                                               !.guess_gamma = gg],
                                    "phase_correlation_guess", "INITIALIZE_SUCCESSFUL"))
                : gg \in GuessGammas }
     ELSE UNION { IF r.fault THEN { InitCaught(st, "initialize_from_neighbor") }
                  ELSE UNION { InitCheck(gid, Ev([st EXCEPT !.init_status = r.value,
                                                            !.guess_gamma = gg,
                                                            !.deformation = GuessDeformation(image_frame_)],
                                                 "initialize_from_neighbor", r.value))
                             : gg \in GuessGammas }
                : r \in ObjInitResults("INITIALIZE_USING_NEIGHBOR_VALUE_SUCCESSFUL") }

\* a motion gate that records a skip as a failed step
MotionGateSkipFails(gid, st) ==
  IF gid \in DOMAIN motion_window_params_
  THEN UNION { IF m.fault THEN { Threw(st, "motion_detected") }
               ELSE IF m.value = "no_motion"
               THEN { Returned(Ev([st EXCEPT
                                     !.rec = record_failed_step(st.rec,
                                               "FRAME_SKIPPED_DUE_TO_NO_MOTION", 0)],
                                  "write_status", "FRAME_SKIPPED_DUE_TO_NO_MOTION")) }
               ELSE InitialGuess(gid, Ev(st, "motion_detected", m.value))
             : m \in MotionResults }
  ELSE InitialGuess(gid, st)

\* Schema::motion_detected and lines 1069-1077
MotionGate(gid, st) ==
  IF gid \in DOMAIN motion_window_params_
  THEN UNION { IF m.fault THEN { Threw(st, "motion_detected") }
               ELSE IF m.value = "no_motion"
               THEN { Returned(Ev([st EXCEPT !.rec.MATCH = 0,
                                             !.rec.STATUS_FLAG = "FRAME_SKIPPED_DUE_TO_NO_MOTION",
                                             !.rec.ITERATIONS = 0],
                                  "write_status", "FRAME_SKIPPED_DUE_TO_NO_MOTION")) }
               ELSE InitialGuess(gid, Ev(st, "motion_detected", m.value))
             : m \in MotionResults }
  ELSE InitialGuess(gid, st)

\* lines 1059-1292: the ways one pass for point gid can end
generic_correlation_routine(gid, rec, has_initializer) ==
  MotionGate(gid,
    [rec |-> rec, deformation |-> ZeroDeformation,
     init_status |-> "INITIALIZE_SUCCESSFUL", corr_status |-> "CORRELATION_FAILED",
     num_iterations |-> -1, initial_gamma |-> 0, events |-> <<>>,
     opt_init |-> has_initializer, args |-> NoArgs,
     guess_gamma |-> 0, final_gamma |-> -1, saved |-> FALSE, nm1 |-> rec])

\* ------------------------------------------------------------------------
\* Inputs
\* ------------------------------------------------------------------------

\* the occlusion maps over n points: any entries, no point blocking itself
ObstMaps(n) ==
  UNION { { m \in [K -> SUBSET Ids(n)] : \A k \in K : k \notin m[k] } :
            K \in SUBSET Ids(n) }

\* no blocking subset is itself blocked
DepthOne(m) ==
  \A k \in DOMAIN m : \A b \in m[k] : ~HasBlockers(m, b)

\* the neighbor-id arrays: -1 marks a seed, no point is its own neighbor
NeighborArrays(n) ==
  { nb \in [Ids(n) -> ((-1) .. (n - 1))] : \A i \in Ids(n) : nb[i] # i }

\* no point has a motion window
NoWindows == [id \in {} |-> -1]

\* the motion window tables over n points: a point with a window uses its
\* own (-1) or that of a lower point that has its own
MotionWindows(n) ==
  UNION { { w \in [K -> (-1) .. (n - 1)] :
              \A k \in K : w[k] # -1 => (w[k] < k /\ w[k] \in K /\ w[w[k]] = -1) } :
            K \in SUBSET Ids(n) }

\* state left by default_constructor_tasks (lines 215-244), for the given
\* number of workers, occlusion map and arguments of initialize()
\* no create_obstruction_dist_map call is being followed
NoScan == [at |-> "idle"]

Members(n, np, obst, nbs) ==
  /\ num_pts = n
  /\ num_procs = np
  /\ obstructing_subset_ids_ = obst
  /\ neighbor_ids = nbs
  /\ data_num_points_ = 0
  /\ is_initialized_ = FALSE
  /\ subset_dim_ = -1
  /\ initialize_calls = <<>>
  /\ dist_map_ = <<>>
  /\ all_map_ = <<>>
  /\ seed_dist_map_ = <<>>
  /\ obstruction_groups = <<>>
  /\ local_seed_groupings = <<>>
  /\ image_frame_ = 0
  /\ target_field_descriptor_ = "ALL_OWNED"
  /\ this_proc_subset_global_ids_ = [p \in Procs(np) |-> <<>>]
  /\ motion_detectors_ = [p \in Procs(np) |-> {}]
  /\ detectors_at_start = [p \in Procs(np) |-> {}]
  /\ detector_log = [p \in Procs(np) |-> <<>>]
  /\ frame_log = <<>>
  /\ subset_index = [p \in Procs(np) |-> 0]
  /\ obj_vec_ = [p \in Procs(np) |-> <<>>]
  /\ fields_ = <<>>
  /\ local_fields = [p \in Procs(np) |-> <<>>]
  /\ phase_cor_u = <<0, 0>>
  /\ opt_initializers_ = {}
  /\ pass_frame = [p \in Procs(np) |-> [id \in Ids(n) |-> -1]]
  /\ last_pass = [ended |-> "none"]
  /\ last_mask = [gid |-> -1]
  /\ pixels_blocked_by_other_subsets = [p \in Procs(np) |-> <<>>]
  /\ local_fields_nm1 = [p \in Procs(np) |-> <<>>]
  /\ obst_locals = NoScan

\* a schema built without a parameter list from two images of one size
Constructed(n, np, obst, nbs) ==
  /\ pc = "constructed"
  /\ Members(n, np, obst, nbs)
  /\ asserts_on = TRUE
  /\ params_given = NullParams
  /\ def_image_rotation_ = "ZERO_DEGREES"
  /\ ref_img_ = <<1, 1>>
  /\ def_img_ = <<1, 1>>
  /\ setup_error = "none"
  /\ ref_img_name = "ref"
  /\ def_img_name = "def_a"
  /\ prev_img_ = "ref"
  /\ phase_cor_images = <<>>
  /\ frame_def_img = "none"

\* parameters of a run that only builds the maps
PlainParams ==
  /\ correlation_routine_ = "GENERIC_ROUTINE"
  /\ initialization_method_ = "USE_FIELD_VALUES"
  /\ optimization_method_ = "GRADIENT_BASED"
  /\ initial_gamma_threshold_ = -1
  /\ final_gamma_threshold_ = -1
  /\ path_distance_threshold_ = -1
  /\ path_file_names_ = {}
  /\ skip_solve_flags_ = {}
  /\ motion_window_params_ = NoWindows
  /\ post_processors_ = 0
  /\ env = "nominal"
  /\ projection_method_ = "DISPLACEMENT_BASED"

\* every occlusion map over 1..MaxPoints points, no neighbor ids
InitObst ==
  /\ \E n \in 1 .. MaxPoints, np \in 1 .. MaxProcs :
       \E m \in ObstMaps(n) :
         Constructed(n, np, [isNull |-> FALSE, map |-> m], NullNeighbors)
  /\ PlainParams

\* every occlusion map over WidePoints points
InitObstWide ==
  /\ \E np \in 1 .. MaxProcs :
       \E m \in ObstMaps(WidePoints) :
         Constructed(WidePoints, np, [isNull |-> FALSE, map |-> m], NullNeighbors)
  /\ PlainParams

\* every neighbor-id array, the occlusion map absent or empty
InitSeed ==
  /\ \E n \in 1 .. MaxPoints, np \in 1 .. MaxProcs :
       \E nb \in NeighborArrays(n), o \in {NullMap, [isNull |-> FALSE, map |-> <<>>]} :
         Constructed(n, np, o, [isNull |-> FALSE, ids |-> nb])
  /\ PlainParams

\* the occlusion maps in which a configured point has at most one blocker
SingleBlockerMaps(n) ==
  { m \in ObstMaps(n) : \A k \in DOMAIN m : Cardinality(m[k]) <= 1 }

\* the neighbor-id arrays in which every neighbor has a lower id
DownwardNeighborArrays(n) ==
  { nb \in NeighborArrays(n) : \A i \in Ids(n) : nb[i] < i }

\* a downward neighbor-id array or none, with an occlusion map of single
\* blockers or none
InitSeedObst ==
  /\ \E n \in 1 .. MaxPoints, np \in 1 .. MaxProcs :
       \E nbs \in {NullNeighbors}
                    \cup { [isNull |-> FALSE, ids |-> nb] : nb \in DownwardNeighborArrays(n) },
          o \in {NullMap} \cup { [isNull |-> FALSE, map |-> m] : m \in SingleBlockerMaps(n) } :
         Constructed(n, np, o, nbs)
  /\ PlainParams

\* one point on one worker, every parameter setting, collaborators that may
\* fail or raise faults
InitPipeline ==
  /\ Constructed(1, 1, NullMap, NullNeighbors)
  /\ correlation_routine_ \in {"GENERIC_ROUTINE", "TRACKING_ROUTINE"}
  /\ initialization_method_ \in InitializationMethods
  /\ optimization_method_ \in OptimizationMethods
  /\ \E t \in Thresholds :
       /\ initial_gamma_threshold_ = t
       /\ final_gamma_threshold_ = t
       /\ path_distance_threshold_ = t
  /\ path_file_names_ \in SUBSET {0}
  /\ skip_solve_flags_ \in SUBSET {0}
  /\ motion_window_params_ \in MotionWindows(1)
  /\ post_processors_ = 1
  /\ env = "any"
  /\ projection_method_ = "DISPLACEMENT_BASED"

\* tracking runs over MaxPoints points with every occlusion map, on one or
\* more workers, with collaborators that succeed
InitTracking ==
  /\ \E np \in 1 .. MaxProcs :
       \E m \in ObstMaps(MaxPoints) :
         Constructed(MaxPoints, np, [isNull |-> FALSE, map |-> m], NullNeighbors)
  /\ correlation_routine_ = "TRACKING_ROUTINE"
  /\ initialization_method_ \in InitializationMethods
  /\ optimization_method_ = "GRADIENT_BASED"
  /\ initial_gamma_threshold_ = -1
  /\ final_gamma_threshold_ = -1
  /\ path_distance_threshold_ = -1
  /\ path_file_names_ = {}
  /\ skip_solve_flags_ = {}
  /\ motion_window_params_ = NoWindows
  /\ post_processors_ = 0
  /\ env = "nominal"
  /\ projection_method_ = "DISPLACEMENT_BASED"

\* single-worker runs of the tracking routine over MaxPoints points with any
\* occlusion map and every initialization method
InitSerial ==
  /\ \E m \in ObstMaps(MaxPoints) :
       Constructed(MaxPoints, 1, [isNull |-> FALSE, map |-> m], NullNeighbors)
  /\ correlation_routine_ = "TRACKING_ROUTINE"
  /\ initialization_method_ \in InitializationMethods
  /\ optimization_method_ = "GRADIENT_BASED"
  /\ initial_gamma_threshold_ = -1
  /\ final_gamma_threshold_ = -1
  /\ path_distance_threshold_ = -1
  /\ path_file_names_ = {}
  /\ skip_solve_flags_ = {}
  /\ motion_window_params_ = NoWindows
  /\ post_processors_ = 0
  /\ env = "nominal"
  /\ projection_method_ = "DISPLACEMENT_BASED"

\* runs of both routines over MaxPoints points with no occlusion map or any
\* occlusion map, on one or more workers, with collaborators that succeed
InitMasking ==
  /\ \E np \in 1 .. MaxProcs :
       \E o \in {NullMap} \cup { [isNull |-> FALSE, map |-> m] : m \in ObstMaps(MaxPoints) } :
         Constructed(MaxPoints, np, o, NullNeighbors)
  /\ correlation_routine_ \in {"GENERIC_ROUTINE", "TRACKING_ROUTINE"}
  /\ initialization_method_ = "USE_FIELD_VALUES"
  /\ optimization_method_ = "GRADIENT_BASED"
  /\ initial_gamma_threshold_ = -1
  /\ final_gamma_threshold_ = -1
  /\ path_distance_threshold_ = -1
  /\ path_file_names_ = {}
  /\ skip_solve_flags_ = {}
  /\ motion_window_params_ = NoWindows
  /\ post_processors_ = 0
  /\ env = "nominal"
  /\ projection_method_ = "DISPLACEMENT_BASED"

\* runs of the generic routine over MaxPoints points with every neighbor-id
\* array, on one or more workers, with collaborators that succeed
InitFrames ==
  /\ \E np \in 1 .. MaxProcs :
       \E nb \in NeighborArrays(MaxPoints) :
         Constructed(MaxPoints, np, NullMap, [isNull |-> FALSE, ids |-> nb])
  /\ correlation_routine_ = "GENERIC_ROUTINE"
  /\ initialization_method_ \in InitializationMethods
  /\ optimization_method_ = "GRADIENT_BASED"
  /\ initial_gamma_threshold_ = -1
  /\ final_gamma_threshold_ = -1
  /\ path_distance_threshold_ = -1
  /\ path_file_names_ = {}
  /\ skip_solve_flags_ = {}
  /\ motion_window_params_ = NoWindows
  /\ post_processors_ \in {0, 2}
  /\ env = "nominal"
  /\ projection_method_ = "DISPLACEMENT_BASED"

\* runs over MaxPoints points with every motion window table, on one or
\* more workers, with collaborators that succeed
InitMotion ==
  /\ \E np \in 1 .. MaxProcs : Constructed(MaxPoints, np, NullMap, NullNeighbors)
  /\ correlation_routine_ \in {"GENERIC_ROUTINE", "TRACKING_ROUTINE"}
  /\ initialization_method_ = "USE_FIELD_VALUES"
  /\ optimization_method_ = "GRADIENT_BASED"
  /\ initial_gamma_threshold_ = -1
  /\ final_gamma_threshold_ = -1
  /\ path_distance_threshold_ = -1
  /\ path_file_names_ = {}
  /\ skip_solve_flags_ = {}
  /\ motion_window_params_ \in MotionWindows(MaxPoints)
  /\ post_processors_ = 0
  /\ env = "nominal"
  /\ projection_method_ = "DISPLACEMENT_BASED"

\* ------------------------------------------------------------------------
\* Schema::initialize(num_pts, subset_size, conformal_subset_defs, neighbor_ids)
\* ------------------------------------------------------------------------
\* the subset size of the first initialize() call
FirstSubsetSize == 15

\* the subset sizes a later initialize() call can pass
SubsetSizes == {15, 21}

\* lines 530-531: the size asserts at the top of initialize()
InitializeAsserts == asserts_on /\ def_img_ # ref_img_

\* an initialize() that rebuilds whether or not it has run before
initialize_always_builds(initialized) == FALSE

\* lines 532-537: initialize() returns at once on an initialized schema
initialize_returns(initialized) == initialized

\* lines 540-606: the members initialize(n, subset_size, ., neighbor_ids)
\* builds
Build(n, subset_size) ==
  /\ LET o  == create_obstruction_dist_map(n, num_procs, obstructing_subset_ids_,
                 DefaultDistMap(n, num_procs), AllOwnedList(n))
         sd == create_seed_dist_map(n, num_procs, obstructing_subset_ids_,
                 neighbor_ids, o.dist)
     IN /\ data_num_points_' = n
        /\ subset_dim_' = subset_size
        /\ dist_map_' = o.dist
        /\ all_map_' = o.all
        /\ obstruction_groups' = o.groups
        /\ seed_dist_map_' = sd.seed
        /\ local_seed_groupings' = sd.chains
        /\ fields_' = [id \in Ids(n) |-> ZeroFields]
        /\ local_fields_nm1' =
             [p \in Procs(num_procs) |-> [id \in Ids(n) |-> ZeroFields]]
  /\ opt_initializers_' = {}
  /\ motion_detectors_' = [p \in Procs(num_procs) |-> {}]
  /\ is_initialized_' = TRUE
  /\ pc' = "initialized"
  /\ UNCHANGED <<setupVars, num_pts, num_procs, obstructing_subset_ids_,
                 neighbor_ids, cfgVars,
                 image_frame_, target_field_descriptor_,
                 this_proc_subset_global_ids_,
                 detectors_at_start, detector_log, frame_log, subset_index,
                 obj_vec_, local_fields, phase_cor_u, pass_frame, last_pass,
                 last_mask, pixels_blocked_by_other_subsets>>

\* an initialize() call that a failed assertion ends
InitializeAborts ==
  /\ pc' = "failed"
  /\ setup_error' = "assertion failed"
  /\ UNCHANGED <<asserts_on, params_given, def_image_rotation_,
                 ref_img_, def_img_, subset_dim_, partVars, cfgVars, execVars>>

\* lines 525-606: the first initialize() call
Initialize ==
  /\ pc = "constructed"
  /\ ~is_initialized_
  /\ UNCHANGED <<imgVars, scanVars>>
  /\ initialize_calls' =
       Append(initialize_calls, [num_pts |-> num_pts, subset_size |-> FirstSubsetSize])
  /\ IF InitializeAsserts THEN InitializeAborts
     ELSE Build(num_pts, FirstSubsetSize)

\* lines 525-537: an initialize() call on a schema that was initialized
\* before, with any arguments
Reinitialize ==
  /\ pc = "initialized"
  /\ Len(initialize_calls) < MaxInitCalls
  /\ UNCHANGED <<imgVars, scanVars>>
  /\ \E n \in 1 .. MaxPoints, subset_size \in SubsetSizes :
       /\ initialize_calls' =
            Append(initialize_calls, [num_pts |-> n, subset_size |-> subset_size])
       /\ IF InitializeAsserts THEN InitializeAborts
          ELSE IF initialize_returns(is_initialized_)
          THEN IF asserts_on /\ data_num_points_ <= 0 THEN InitializeAborts
               ELSE UNCHANGED <<pc, setupVars, subset_dim_, partVars, cfgVars, execVars>>
          ELSE Build(n, subset_size)

\* ------------------------------------------------------------------------
\* Schema::create_obstruction_dist_map, statement by statement
\* ------------------------------------------------------------------------

\* the keys of obstructing_subset_ids_ in the order a std::map iterates them
ScanKeys == SortedSeq(DOMAIN obstructing_subset_ids_.map)

\* the blocker ids stored under a key
ScanBlockers(key) == obstructing_subset_ids_.map[key]

\* lines 621-627 and 687-688: the locals before the map_it loop. map_it and
\* search_it are positions in ScanKeys (Len + 1 is end()), dep_it is the
\* element of dependencies it points at, elig_it a position in the sorted
\* eligible_ids; reset_by is the key whose match reset dep_it in the last
\* step, -1 if the last step reset nothing
ScanLocals(n, np) ==
  [at                     |-> "map_it",
   map_it                 |-> 1,
   dep_it                 |-> -1,
   search_it              |-> 1,
   reset_by               |-> -1,
   dependencies           |-> {},
   eligible_ids           |-> Ids(n),
   assigned_to_a_group    |-> {},
   earliest_id_can_appear |-> [k \in {} |-> 0],
   obstruction_groups     |-> <<>>,
   obst_group_gid         |-> 0,
   p_id                   |-> 0,
   local_subset_ids       |-> [p \in Procs(np) |-> {}],
   elig_it                |-> 1,
   local_ids              |-> [p \in Procs(np) |-> <<>>]]

\* a statement of create_obstruction_dist_map: only its locals change
ScanStep(next) ==
  /\ obst_locals' = [next EXCEPT !.reset_by =
                       IF next.at = "search_it" THEN next.reset_by ELSE -1]
  /\ UNCHANGED <<pc, setupVars, imgVars, initVars, partVars, cfgVars, execVars>>

\* a restart that leaves the matched entry unmarked
assigned_insert_forgets(assigned_to_a_group, key) == assigned_to_a_group

\* line 665: assigned_to_a_group.insert(search_it->first)
assigned_insert(assigned_to_a_group, key) == assigned_to_a_group \cup {key}

\* lines 525-553 and 609-627: initialize() on a fresh schema up to the entry
\* of create_obstruction_dist_map, which returns at once without a map
InitializeEnters ==
  /\ pc = "constructed"
  /\ ~is_initialized_
  /\ obst_locals.at = "idle"
  /\ ~InitializeAsserts
  /\ initialize_calls' =
       Append(initialize_calls, [num_pts |-> num_pts, subset_size |-> FirstSubsetSize])
  /\ data_num_points_' = num_pts
  /\ subset_dim_' = FirstSubsetSize
  /\ dist_map_' = DefaultDistMap(num_pts, num_procs)
  /\ all_map_' = AllOwnedList(num_pts)
  /\ obst_locals' =
       IF obstructing_subset_ids_.isNull
       THEN [ScanLocals(num_pts, num_procs) EXCEPT !.at = "return"]
       ELSE ScanLocals(num_pts, num_procs)
  /\ UNCHANGED <<pc, setupVars, imgVars, cfgVars, execVars,
                 num_pts, num_procs, obstructing_subset_ids_, neighbor_ids,
                 is_initialized_, seed_dist_map_, obstruction_groups,
                 local_seed_groupings>>

\* line 628: map_it has reached the end of the map
MapItEnds ==
  /\ obst_locals.at = "map_it"
  /\ obst_locals.map_it > Len(ScanKeys)
  /\ ScanStep([obst_locals EXCEPT !.at = "while"])

\* lines 629-632: the greatest blocker id of the entry (0 without blockers)
EarliestRecorded(L) ==
  LET key == ScanKeys[L.map_it]
      greatest == CHOOSE g \in ScanBlockers(key) \cup {0} :
                    \A b \in ScanBlockers(key) \cup {0} : b <= g
  IN [L EXCEPT !.earliest_id_can_appear =
        [k \in DOMAIN @ \cup {key} |-> IF k = key THEN greatest ELSE @[k]]]

\* lines 629-634: an entry that an earlier group took already
MapItSkipsAssigned ==
  /\ obst_locals.at = "map_it"
  /\ obst_locals.map_it <= Len(ScanKeys)
  /\ ScanKeys[obst_locals.map_it] \in obst_locals.assigned_to_a_group
  /\ ScanStep([EarliestRecorded(obst_locals) EXCEPT !.map_it = @ + 1])

\* lines 629-646: a new group starts from the entry and its blockers
MapItOpensGroup ==
  /\ obst_locals.at = "map_it"
  /\ obst_locals.map_it <= Len(ScanKeys)
  /\ ScanKeys[obst_locals.map_it] \notin obst_locals.assigned_to_a_group
  /\ LET key == ScanKeys[obst_locals.map_it]
         dependencies == {key} \cup ScanBlockers(key)
     IN ScanStep([EarliestRecorded(obst_locals) EXCEPT
                    !.dependencies = dependencies,
                    !.eligible_ids = @ \ dependencies,
                    !.dep_it = SetMin(dependencies),
                    !.search_it = 1,
                    !.reset_by = -1,
                    !.at = "search_it"])

\* lines 647-648: an entry already assigned to a group is passed over
SearchItSkipsAssigned ==
  /\ obst_locals.at = "search_it"
  /\ obst_locals.search_it <= Len(ScanKeys)
  /\ ScanKeys[obst_locals.search_it] \in obst_locals.assigned_to_a_group
  /\ ScanStep([obst_locals EXCEPT !.search_it = @ + 1, !.reset_by = -1])

\* lines 650-654: *dep_it is the key of the entry or one of its blockers
match_found(L) ==
  LET key == ScanKeys[L.search_it] IN
  L.dep_it = key \/ L.dep_it \in ScanBlockers(key)

\* lines 647-655: an unassigned entry that does not hold *dep_it
SearchItNoMatch ==
  /\ obst_locals.at = "search_it"
  /\ obst_locals.search_it <= Len(ScanKeys)
  /\ ScanKeys[obst_locals.search_it] \notin obst_locals.assigned_to_a_group
  /\ ~match_found(obst_locals)
  /\ ScanStep([obst_locals EXCEPT !.search_it = @ + 1, !.reset_by = -1])

\* lines 655-666: the entry joins the group, dep_it goes back to begin()
SearchItRestarts ==
  /\ obst_locals.at = "search_it"
  /\ obst_locals.search_it <= Len(ScanKeys)
  /\ ScanKeys[obst_locals.search_it] \notin obst_locals.assigned_to_a_group
  /\ match_found(obst_locals)
  /\ LET key == ScanKeys[obst_locals.search_it]
         dependencies == obst_locals.dependencies \cup {key} \cup ScanBlockers(key)
     IN ScanStep([obst_locals EXCEPT
                    !.dependencies = dependencies,
                    !.eligible_ids = (@ \ {key}) \ ScanBlockers(key),
                    !.dep_it = SetMin(dependencies),
                    !.assigned_to_a_group = assigned_insert(@, key),
                    !.reset_by = key,
                    !.search_it = @ + 1])

\* lines 645-647: search_it is at the end, ++dep_it finds another element
DepItAdvances ==
  /\ obst_locals.at = "search_it"
  /\ obst_locals.search_it > Len(ScanKeys)
  /\ LET rest == { d \in obst_locals.dependencies : d > obst_locals.dep_it } IN
       /\ rest # {}
       /\ ScanStep([obst_locals EXCEPT !.dep_it = SetMin(rest),
                                       !.search_it = 1,
                                       !.reset_by = -1])

\* lines 645, 669, 628: dep_it is at the end, the group is stored, ++map_it
DepItEnds ==
  /\ obst_locals.at = "search_it"
  /\ obst_locals.search_it > Len(ScanKeys)
  /\ { d \in obst_locals.dependencies : d > obst_locals.dep_it } = {}
  /\ ScanStep([obst_locals EXCEPT
                 !.obstruction_groups = Append(@, obst_locals.dependencies),
                 !.map_it = @ + 1,
                 !.at = "map_it"])

\* line 689: the test of the while loop
WhileTest ==
  /\ obst_locals.at = "while"
  /\ ScanStep(IF obst_locals.obst_group_gid < Len(obst_locals.obstruction_groups)
              THEN [obst_locals EXCEPT !.p_id = 0, !.at = "for"]
              ELSE [obst_locals EXCEPT !.elig_it = 1, !.at = "greedy"])

\* lines 690-698: one turn of the for loop over the workers
ForTurn ==
  /\ obst_locals.at = "for"
  /\ ScanStep(
       IF obst_locals.p_id < num_procs
       THEN IF obst_locals.obst_group_gid < Len(obst_locals.obstruction_groups)
            THEN [obst_locals EXCEPT
                    !.local_subset_ids[obst_locals.p_id] =
                       @ \cup obst_locals.obstruction_groups[obst_locals.obst_group_gid + 1],
                    !.obst_group_gid = @ + 1,
                    !.p_id = @ + 1]
            ELSE [obst_locals EXCEPT !.at = "while"]           \* break
       ELSE [obst_locals EXCEPT !.at = "while"])

\* lines 701-711: one eligible id goes to the worker holding the fewest ids
EligItTurn ==
  /\ obst_locals.at = "greedy"
  /\ LET eligSeq == SortedSeq(obst_locals.eligible_ids) IN
     ScanStep(
       IF obst_locals.elig_it > Len(eligSeq)
       THEN [obst_locals EXCEPT !.at = "order"]
       ELSE LET proc_with_fewest_subsets ==
                  FewestLoop(obst_locals.local_subset_ids, num_procs, 0,
                             data_num_points_, 0)
            IN [obst_locals EXCEPT
                  !.local_subset_ids[proc_with_fewest_subsets] =
                     @ \cup {eligSeq[obst_locals.elig_it]},
                  !.elig_it = @ + 1])

\* lines 713-734: the ids of each worker put in order
OrderTurn ==
  /\ obst_locals.at = "order"
  /\ ScanStep([obst_locals EXCEPT
                 !.local_ids =
                    [p \in Procs(num_procs) |->
                       OrderLocalIds(obstructing_subset_ids_.map,
                                     obst_locals.local_subset_ids[p])],
                 !.at = "return"])

\* lines 736-753 and 554-606: create_obstruction_dist_map returns and
\* initialize() runs to its end
InitializeReturns ==
  /\ obst_locals.at = "return"
  /\ obst_locals' = [obst_locals EXCEPT !.at = "returned"]
  /\ Build(num_pts, FirstSubsetSize)
  /\ UNCHANGED <<imgVars, initialize_calls>>

\* a fresh schema with no occlusion map or any occlusion map
InitScan ==
  /\ \E n \in 1 .. ScanPoints, np \in 1 .. MaxProcs :
       \E o \in {NullMap} \cup { [isNull |-> FALSE, map |-> m] : m \in ObstMaps(n) } :
         Constructed(n, np, o, NullNeighbors)
  /\ PlainParams

\* the statements of initialize() up to the end of create_obstruction_dist_map
ScanStatements ==
  \/ InitializeEnters
  \/ MapItEnds
  \/ MapItSkipsAssigned
  \/ MapItOpensGroup
  \/ SearchItSkipsAssigned
  \/ SearchItNoMatch
  \/ SearchItRestarts
  \/ DepItAdvances
  \/ DepItEnds
  \/ WhileTest
  \/ ForTurn
  \/ EligItTurn
  \/ OrderTurn

NextScan == ScanStatements \/ InitializeReturns

\* initialize() is sequential code: the statement it stands at is executed
SpecScan == InitScan /\ [][NextScan]_vars /\ WF_vars(ScanStatements)

\* ------------------------------------------------------------------------
\* Schema::execute_correlation
\* ------------------------------------------------------------------------

\* a selection that never leaves the seed map in a parallel run
ActiveListSeedAlways(p) ==
  IF num_procs > 1 THEN seed_dist_map_[p] ELSE all_map_

\* a selection that keeps whatever list the worker had
ActiveListStale(p) == this_proc_subset_global_ids_[p]

\* lines 867-916: the active local id list of worker p
ActiveList(p) ==
  IF num_procs > 1
  THEN IF initialization_method_ = "USE_FIELD_VALUES"
       THEN IF Len(this_proc_subset_global_ids_[p]) = 0
            THEN dist_map_[p] ELSE this_proc_subset_global_ids_[p]
       ELSE IF initialization_method_ = "USE_NEIGHBOR_VALUES_FIRST_STEP_ONLY"
       THEN IF image_frame_ = 0 THEN seed_dist_map_[p]
            ELSE IF image_frame_ = 1 THEN dist_map_[p]
            ELSE this_proc_subset_global_ids_[p]
       ELSE IF initialization_method_ = "USE_NEIGHBOR_VALUES"
       THEN IF image_frame_ = 0 THEN seed_dist_map_[p]
            ELSE this_proc_subset_global_ids_[p]
       ELSE this_proc_subset_global_ids_[p]
  ELSE IF image_frame_ = 0 THEN all_map_ ELSE this_proc_subset_global_ids_[p]

\* a push that hands every worker zeroed rows
PushFieldsZeroed(lists) ==
  [p \in Procs(num_procs) |-> [id \in SeqToSet(lists[p]) |-> ZeroFields]]

\* sync_fields_all_to_dist: every worker's store takes the replicated values
\* of its local ids
PushFields(lists) ==
  [p \in Procs(num_procs) |-> [id \in SeqToSet(lists[p]) |-> fields_[id]]]

\* the owner choices a pull can make: for every id held by some worker, one
\* of the workers that hold it
OwnerPicks(local) ==
  { pick \in [Ids(data_num_points_) -> Procs(num_procs)] :
      \A id \in Ids(data_num_points_) :
        LET own == { p \in Procs(num_procs) : id \in DOMAIN local[p] } IN
        IF own = {} THEN pick[id] = 0 ELSE pick[id] \in own }

\* the replicated store after a pull from the workers' stores: every id takes
\* the value held by the worker that owns it (pick[id]); an id no worker
\* holds keeps its value
Pull(local, pick) ==
  [id \in Ids(data_num_points_) |->
     IF id \in DOMAIN local[pick[id]]
     THEN local[pick[id]][id] ELSE fields_[id]]

\* sync_fields_dist_to_all
PullFields(pick) == Pull(local_fields, pick)

\* lines 873-912: the descriptor of the active assignment
ActiveDescriptor ==
  IF num_procs > 1
  THEN IF initialization_method_ = "USE_FIELD_VALUES" THEN "DISTRIBUTED"
       ELSE IF initialization_method_ = "USE_NEIGHBOR_VALUES_FIRST_STEP_ONLY"
       THEN IF image_frame_ = 0 THEN "DISTRIBUTED_GROUPED_BY_SEED"
            ELSE IF image_frame_ = 1 THEN "DISTRIBUTED"
            ELSE target_field_descriptor_
       ELSE IF initialization_method_ = "USE_NEIGHBOR_VALUES"
       THEN IF image_frame_ = 0 THEN "DISTRIBUTED_GROUPED_BY_SEED"
            ELSE target_field_descriptor_
       ELSE target_field_descriptor_
  ELSE IF image_frame_ = 0 THEN "ALL_OWNED" ELSE target_field_descriptor_

\* a frame start that resets no detector
ResetDetectorsNone(detectors) == <<>>

\* lines 861-865: every detector that exists is reset, in index order
ResetDetectors(detectors) ==
  LET ids == SortedSeq(detectors) IN
  [i \in 1 .. Len(ids) |-> <<"reset", ids[i]>>]

\* Schema::motion_detected, lines 1003-1004: the detector point gid uses
use_subset_id(gid) ==
  IF motion_window_params_[gid] = -1 THEN gid ELSE motion_window_params_[gid]

\* lines 903-905: assert(false) on a method the parallel case does not know;
\* a build with assertions stops there, a build without them goes on with
\* the list it had
UnknownMethod ==
  num_procs > 1 /\ initialization_method_ = "USE_PHASE_CORRELATION"

\* lines 839-941 and 958-965: up to the loops that run the local points
ExecuteBegin ==
  /\ pc = "initialized"
  /\ UNCHANGED <<initVars, scanVars>>
  /\ image_frame_ < MaxFrames
  /\ detectors_at_start' = motion_detectors_
  /\ detector_log' = [p \in Procs(num_procs) |-> ResetDetectors(motion_detectors_[p])]
  /\ target_field_descriptor_' = ActiveDescriptor
  /\ frame_log' = <<"reset_motion_detectors">>
                    \o (IF image_frame_ = 0 THEN <<"pre_execution_tasks">> ELSE <<>>)
                    \o <<"sync_fields_all_to_dist">>
                    \o (IF initialization_method_ = "USE_PHASE_CORRELATION"
                        THEN <<"phase_correlate_x_y">> ELSE <<>>)
  /\ LET lists == [p \in Procs(num_procs) |-> ActiveList(p)] IN
       /\ this_proc_subset_global_ids_' = lists
       /\ local_fields' = PushFields(lists)
       /\ obj_vec_' = IF correlation_routine_ = "TRACKING_ROUTINE"
                      THEN [p \in Procs(num_procs) |->
                              IF Len(obj_vec_[p]) = 0 THEN lists[p] ELSE obj_vec_[p]]
                      ELSE obj_vec_
       /\ pixels_blocked_by_other_subsets' =
            IF correlation_routine_ = "TRACKING_ROUTINE"
            THEN [p \in Procs(num_procs) |->
                    IF Len(obj_vec_[p]) = 0 THEN [i \in 1 .. Len(lists[p]) |-> {}]
                    ELSE pixels_blocked_by_other_subsets[p]]
            ELSE pixels_blocked_by_other_subsets
  /\ subset_index' = [p \in Procs(num_procs) |-> 0]
  /\ IF initialization_method_ = "USE_PHASE_CORRELATION"
     THEN /\ phase_cor_u' \in PhaseOffsets
          /\ phase_cor_images' = <<prev_img_, def_img_name>>
     ELSE UNCHANGED <<phase_cor_u, phase_cor_images>>
  /\ UNCHANGED <<ref_img_name, def_img_name, prev_img_, frame_def_img>>
  /\ pc' \in IF UnknownMethod THEN {"aborted", "correlating"} ELSE {"correlating"}
  /\ UNCHANGED <<setupVars, partVars, cfgVars, image_frame_, motion_detectors_, fields_,
                 opt_initializers_, pass_frame, last_pass, last_mask,
                 local_fields_nm1>>

\* Schema::check_for_blocking_subsets (lines 1545-1578): what the masking of
\* gid on worker p reads: for each blocker, whether it is local and the frame
\* of its last completed pass
check_for_blocking_subsets(p, gid) ==
  IF obstructing_subset_ids_.isNull THEN last_mask
  ELSE IF ~HasBlockers(obstructing_subset_ids_.map, gid) THEN last_mask
  ELSE [gid |-> gid, proc |-> p, frame |-> image_frame_,
        blockers |->
          [b \in obstructing_subset_ids_.map[gid] |->
             [local |-> b \in SeqToSet(this_proc_subset_global_ids_[p]),
              solved_in |-> pass_frame[p][b]]]]

\* Schema::get_local_id: the position of an id in the worker's element list
\* (counted from 1 here), -1 for an id the worker does not hold
get_local_id(p, gid) ==
  IF \E i \in 1 .. Len(dist_map_[p]) : dist_map_[p][i] = gid
  THEN CHOOSE i \in 1 .. Len(dist_map_[p]) : dist_map_[p][i] = gid
  ELSE -1

\* line 389: the factor the parameter list gives
obstruction_skin_factor_ == 2

\* Subset::centroid_x, centroid_y of the subset of point id
centroid(id) == <<100 * (id + 1), 0>>

\* the shape of every subset: its centroid pixel and the pixel to its right,
\* as offsets from the centroid
ShapeOffsets == {<<0, 0>>, <<1, 0>>}

\* Subset::deformed_shapes(def, cx, cy, skin_factor): the pixels the shape of
\* the subset of point id covers once it is moved by the displacement of def,
\* with the offsets from the centroid scaled by the skin factor
deformed_shapes(id, def, cx, cy, skin_factor) ==
  { <<cx + skin_factor * o[1] + def.DISPLACEMENT_X,
      cy + skin_factor * o[2] + def.DISPLACEMENT_Y>> : o \in ShapeOffsets }

\* lines 1567-1573: the deformation vector read from the worker's fields
local_deformation(p, global_ss) ==
  [f \in DeformationFields |-> local_fields[p][global_ss][f]]

\* a masking that adds the new footprints to the pixels already blocked
blocked_pixels_not_cleared(old, footprints) == old \cup footprints

\* lines 1554-1577: the set blocked_pixels after clear() and the insertion
\* of the footprint of every blocker
blocked_pixels(old, footprints) == footprints

\* lines 1545-1578: the blocked-pixel sets of worker p after the masking of
\* gid, one value per outcome. An index of -1 (the point or a blocker is not
\* held by the worker) reads outside obj_vec_: the set is then left as it is or
\* replaced by anything the stray objective gives (here: no pixel).
mask_blocked_pixels(p, gid) ==
  LET cur == pixels_blocked_by_other_subsets
      subset_local_id == get_local_id(p, gid)
      obst_ids == obstructing_subset_ids_.map[gid]
      in_range(i) == i \in 1 .. Len(cur[p])
  IN IF obstructing_subset_ids_.isNull THEN {cur}
     ELSE IF ~HasBlockers(obstructing_subset_ids_.map, gid) THEN {cur}
     ELSE IF ~in_range(subset_local_id)
             \/ \E b \in obst_ids : ~in_range(get_local_id(p, b))
                                     \/ b \notin DOMAIN local_fields[p]
     THEN {cur} \cup { [cur EXCEPT ![p][i] = {}] : i \in 1 .. Len(cur[p]) }
     ELSE LET footprints ==
                UNION { deformed_shapes(b, local_deformation(p, b),
                                        centroid(b)[1], centroid(b)[2],
                                        obstruction_skin_factor_) : b \in obst_ids }
          IN { [cur EXCEPT ![p][subset_local_id] =
                  blocked_pixels(@, footprints)] }

\* lines 946-970: one iteration of the loop over the local points of worker
\* p. The tracking routine masks the point of the active list and runs the
\* static objective at the same index; an objective whose point is not
\* local stops at the assert of line 1063.
CorrelatePoint(p) ==
  /\ pc = "correlating"
  /\ UNCHANGED <<initVars, scanVars>>
  /\ subset_index[p] < Len(this_proc_subset_global_ids_[p])
  /\ LET listed == this_proc_subset_global_ids_[p][subset_index[p] + 1]
         tracking == correlation_routine_ = "TRACKING_ROUTINE"
         sized == Len(obj_vec_[p]) = Len(this_proc_subset_global_ids_[p])
         gid == IF tracking /\ sized THEN obj_vec_[p][subset_index[p] + 1] ELSE listed
     IN IF (tracking /\ ~sized) \/ gid \notin DOMAIN local_fields[p]
        THEN /\ pc' = "aborted"
             /\ UNCHANGED <<subset_index, pass_frame, local_fields, opt_initializers_,
                            last_pass, last_mask, motion_detectors_, detector_log,
                            frame_log, pixels_blocked_by_other_subsets,
                            local_fields_nm1>>
        ELSE LET rec == local_fields[p][gid] IN
             /\ last_mask' = IF tracking THEN check_for_blocking_subsets(p, listed)
                             ELSE last_mask
             /\ pixels_blocked_by_other_subsets' \in
                  IF tracking THEN mask_blocked_pixels(p, listed)
                  ELSE {pixels_blocked_by_other_subsets}
             /\ frame_log' = Append(frame_log, "generic_correlation_routine")
             /\ IF gid \in DOMAIN motion_window_params_
                THEN /\ motion_detectors_' =
                          [motion_detectors_ EXCEPT ![p] = @ \cup {use_subset_id(gid)}]
                     /\ detector_log' =
                          [detector_log EXCEPT
                             ![p] = Append(@, <<"motion_detected", use_subset_id(gid), gid>>)]
                ELSE UNCHANGED <<motion_detectors_, detector_log>>
             /\ \E out \in generic_correlation_routine(gid, rec, gid \in opt_initializers_) :
                  /\ local_fields' = [local_fields EXCEPT ![p][gid] = out.rec]
                  /\ local_fields_nm1' =
                       IF out.saved THEN [local_fields_nm1 EXCEPT ![p][gid] = out.nm1]
                       ELSE local_fields_nm1
                  /\ opt_initializers_' =
                       IF out.opt_init THEN opt_initializers_ \cup {gid}
                       ELSE opt_initializers_
                  /\ last_pass' = [ended |-> out.ended, gid |-> gid, proc |-> p,
                                   frame |-> image_frame_, pre |-> rec, post |-> out.rec,
                                   events |-> out.events,
                                   initial_gamma |-> out.initial_gamma,
                                   args |-> out.args,
                                   guess_gamma |-> out.guess_gamma,
                                   final_gamma |-> out.final_gamma,
                                   pre_nm1 |-> local_fields_nm1[p][gid],
                                   post_nm1 |-> local_fields_nm1'[p][gid]]
                  /\ IF out.ended = "threw"
                     THEN /\ pc' = "aborted"
                          /\ UNCHANGED <<subset_index, pass_frame>>
                     ELSE /\ pc' = pc
                          /\ subset_index' = [subset_index EXCEPT ![p] = @ + 1]
                          /\ pass_frame' = [pass_frame EXCEPT ![p][gid] = image_frame_]
  /\ UNCHANGED <<setupVars, imgVars, partVars, cfgVars, image_frame_,
                 target_field_descriptor_,
                 this_proc_subset_global_ids_, detectors_at_start, obj_vec_, fields_,
                 phase_cor_u>>

\* the frame counter after update_image_frame
update_image_frame(frame) == frame + 1

\* an end of frame that runs the post-processors before the pull
EndOfFrameLogPostFirst(log) ==
  log \o [i \in 1 .. post_processors_ |-> "post_processor_execute"]
      \o <<"sync_fields_dist_to_all", "update_image_frame">>

\* lines 979-997: the steps after the loops, in the order of the code
EndOfFrameLog(log) ==
  log \o <<"sync_fields_dist_to_all">>
      \o [i \in 1 .. post_processors_ |-> "post_processor_execute"]
      \o <<"update_image_frame">>

\* lines 971-998: after the loop: field pull, post-processors, frame advance
ExecuteEnd ==
  /\ pc = "correlating"
  /\ UNCHANGED <<initVars, scanVars>>
  /\ \A p \in Procs(num_procs) :
       subset_index[p] = Len(this_proc_subset_global_ids_[p])
  /\ \E pick \in OwnerPicks(local_fields) : fields_' = PullFields(pick)
  /\ frame_log' = EndOfFrameLog(frame_log)
  /\ image_frame_' = update_image_frame(image_frame_)
  /\ prev_img_' = IF correlation_routine_ = "TRACKING_ROUTINE" THEN def_img_name
                  ELSE prev_img_
  /\ frame_def_img' = def_img_name
  /\ pc' = "initialized"
  /\ UNCHANGED <<ref_img_name, def_img_name, phase_cor_images>>
  /\ UNCHANGED <<setupVars, partVars, cfgVars, target_field_descriptor_,
                 this_proc_subset_global_ids_, motion_detectors_, detectors_at_start,
                 detector_log, subset_index, obj_vec_, local_fields, phase_cor_u,
                 opt_initializers_, pass_frame, last_pass, last_mask,
                 pixels_blocked_by_other_subsets, local_fields_nm1>>

\* ------------------------------------------------------------------------
\* Construction: Schema::Schema, Schema::set_params, the image setters
\* ------------------------------------------------------------------------

\* names of valid_correlation_params that the model uses
ValidCorrelationParams ==
  {"initialization_method", "rotate_def_image_90", "use_global_dic",
   "use_tracking_default_params"}

\* names of valid_post_processor_params that the model uses
ValidPostProcessorParams == {"post_process_vsg_strain"}

\* a name that is in neither table
MisspelledParams == {"initialisation_method"}

ParamNames == ValidCorrelationParams \cup ValidPostProcessorParams \cup MisspelledParams

ParamValues(name) ==
  IF name = "initialization_method" THEN {"USE_FIELD_VALUES", "USE_PHASE_CORRELATION"}
  ELSE IF name \in {"rotate_def_image_90", "use_global_dic", "use_tracking_default_params"}
  THEN {"true", "false"}
  ELSE IF name = "post_process_vsg_strain" THEN {"sublist"}
  ELSE {"USE_FIELD_VALUES"}

\* the parameter lists a caller can pass: none, or any entries over ParamNames
ParamLists ==
  {NullParams} \cup
  { [isNull |-> FALSE, list |-> f] :
      f \in UNION { { g \in [S -> UNION { ParamValues(n) : n \in ParamNames }] :
                        \A n \in S : g[n] \in ParamValues(n) } :
                    S \in SUBSET ParamNames } }

\* Teuchos::ParameterList::get(name, default) on a list that can be written:
\* a missing entry is created with the default
GetWithDefault(list, name, default) ==
  [n \in DOMAIN list \cup {name} |-> IF n \in DOMAIN list THEN list[n] ELSE default]

\* dice_default_params and tracking_default_params, then the caller's entries
\* (lines 269-276, 286, 293)
diceParams(list, use_tracking_defaults) ==
  LET defaults ==
        [correlation_routine |->
           IF use_tracking_defaults THEN "TRACKING_ROUTINE" ELSE "GENERIC_ROUTINE",
         initialization_method |-> "USE_FIELD_VALUES",
         rotate_def_image_90 |-> "false"]
  IN [n \in DOMAIN defaults \cup DOMAIN list |->
        IF n \in DOMAIN list THEN list[n] ELSE defaults[n]]

\* a validation that accepts a list as soon as one of its names is valid
anyParamValid(list) ==
  \E name \in DOMAIN list :
    name \in ValidCorrelationParams \/ name \in ValidPostProcessorParams

\* lines 281-301: every name of the list is in one of the two tables
allParamsValid(list) ==
  \A name \in DOMAIN list :
    name \in ValidCorrelationParams \/ name \in ValidPostProcessorParams

\* lines 247-483: the error set_params ends with and the members it sets
set_params(params) ==
  IF params.isNull
  THEN [error |-> "none", dice |-> diceParams(EmptyList, FALSE)]
  ELSE LET l1 == GetWithDefault(params.list, "use_global_dic", "false")
           l2 == GetWithDefault(l1, "use_tracking_default_params", "false")
       IN IF l1["use_global_dic"] = "true"
          THEN [error |-> "Global DIC is not enabled", dice |-> diceParams(EmptyList, FALSE)]
          ELSE IF ~allParamsValid(l2)
          THEN [error |-> "Invalid parameter", dice |-> diceParams(EmptyList, FALSE)]
          ELSE [error |-> "none",
                dice |-> diceParams(l2, l2["use_tracking_default_params"] = "true")]

\* the image sizes of the runs
ImageSizes == {<<1, 1>>, <<1, 2>>, <<2, 1>>}

\* Image::apply_rotation: a quarter turn swaps width and height
apply_rotation(img, rotation) ==
  IF rotation = "NINTY_DEGREES" THEN <<img[2], img[1]>> ELSE img

\* lines 216-244 and 324-483: the members after default_constructor_tasks
Configured(params, r) ==
  /\ params_given' = params
  /\ correlation_routine_' = r.dice["correlation_routine"]
  /\ initialization_method_' = r.dice["initialization_method"]
  /\ optimization_method_' = "GRADIENT_BASED"
  /\ def_image_rotation_' =
       IF r.dice["rotate_def_image_90"] = "true" THEN "NINTY_DEGREES" ELSE "ZERO_DEGREES"
  /\ post_processors_' =
       IF "post_process_vsg_strain" \in DOMAIN r.dice THEN 1 ELSE 0
  /\ UNCHANGED <<initial_gamma_threshold_, final_gamma_threshold_,
                 path_distance_threshold_, path_file_names_, skip_solve_flags_,
                 motion_window_params_, projection_method_, env>>

\* the names of the images a caller passes
RefImageNames == {"ref", "ref_b"}
DefImageNames == {"def_a", "def_b"}

\* lines 79-83, 113-115, 138-140: the images a constructor builds; prev_img_
\* starts as the reference image
ImagesBuilt ==
  /\ ref_img_name' = "ref"
  /\ def_img_name' = "def_a"
  /\ prev_img_' = "ref"
  /\ UNCHANGED <<phase_cor_images, frame_def_img>>

\* a constructor that an exception or a failed assertion leaves
SetupFails(params, message) ==
  /\ pc' = "failed"
  /\ setup_error' = message
  /\ params_given' = params
  /\ UNCHANGED <<def_image_rotation_, ref_img_, def_img_, cfgVars, imgVars>>

\* lines 65-96: construction from two image files
ConstructFromFiles ==
  /\ pc = "unconstructed"
  /\ UNCHANGED <<initVars, scanVars>>
  /\ \E params \in ParamLists, ref \in ImageSizes, def \in ImageSizes :
       LET r == set_params(params)
           rotated == apply_rotation(def, def_image_rotation_')
       IN IF r.error # "none" THEN SetupFails(params, r.error)
          ELSE /\ Configured(params, r)
               /\ ImagesBuilt
               /\ ref_img_' = ref
               /\ def_img_' = rotated
               /\ IF ref[1] # rotated[1]
                  THEN /\ pc' = "failed"
                       /\ setup_error' = "Images must be the same width"
                  ELSE IF ref[2] # rotated[2]
                  THEN /\ pc' = "failed"
                       /\ setup_error' = "Images must be the same height"
                  ELSE /\ pc' = "constructed"
                       /\ UNCHANGED setup_error
  /\ UNCHANGED <<asserts_on, partVars, execVars>>

\* lines 98-127: construction from two intensity arrays of one given size
ConstructFromArrays ==
  /\ pc = "unconstructed"
  /\ UNCHANGED <<initVars, scanVars>>
  /\ \E params \in ParamLists, img \in ImageSizes :
       LET r == set_params(params)
           rotated == apply_rotation(img, def_image_rotation_')
       IN IF r.error # "none" THEN SetupFails(params, r.error)
          ELSE /\ Configured(params, r)
               /\ ImagesBuilt
               /\ ref_img_' = img
               /\ def_img_' = rotated
               /\ IF asserts_on /\ (img[1] <= 0 \/ img[1] # rotated[1]
                                      \/ img[2] <= 0 \/ img[2] # rotated[2])
                  THEN /\ pc' = "failed"
                       /\ setup_error' = "assertion failed"
                  ELSE /\ pc' = "constructed"
                       /\ UNCHANGED setup_error
  /\ UNCHANGED <<asserts_on, partVars, execVars>>

\* lines 129-154: construction from two image objects
ConstructFromImages ==
  /\ pc = "unconstructed"
  /\ UNCHANGED <<initVars, scanVars>>
  /\ \E params \in ParamLists, ref \in ImageSizes, def \in ImageSizes :
       LET r == set_params(params)
       IN IF r.error # "none" THEN SetupFails(params, r.error)
          ELSE /\ Configured(params, r)
               /\ ImagesBuilt
               /\ ref_img_' = ref
               /\ def_img_' = apply_rotation(def, def_image_rotation_')
               /\ pc' = "constructed"
               /\ UNCHANGED setup_error
  /\ UNCHANGED <<asserts_on, partVars, execVars>>

\* lines 156-187: the three overloads replace the deformed image
set_def_image ==
  /\ pc \in {"constructed", "initialized"}
  /\ UNCHANGED <<initVars, scanVars>>
  /\ \E img \in ImageSizes : def_img_' = apply_rotation(img, def_image_rotation_)
  /\ def_img_name' \in DefImageNames
  /\ UNCHANGED <<ref_img_name, prev_img_, phase_cor_images, frame_def_img>>
  /\ UNCHANGED <<pc, asserts_on, params_given, def_image_rotation_, ref_img_,
                 setup_error, partVars, cfgVars, execVars>>

\* lines 189-213: the two overloads replace the reference image
set_ref_image ==
  /\ pc \in {"constructed", "initialized"}
  /\ UNCHANGED <<initVars, scanVars>>
  /\ \E img \in ImageSizes : ref_img_' = img
  /\ ref_img_name' \in RefImageNames
  /\ UNCHANGED <<def_img_name, prev_img_, phase_cor_images, frame_def_img>>
  /\ UNCHANGED <<pc, asserts_on, params_given, def_image_rotation_, def_img_,
                 setup_error, partVars, cfgVars, execVars>>

\* before construction: one point on one worker, either build
InitSetup ==
  /\ pc = "unconstructed"
  /\ Members(1, 1, NullMap, NullNeighbors)
  /\ asserts_on \in BOOLEAN
  /\ params_given = NullParams
  /\ def_image_rotation_ = "ZERO_DEGREES"
  /\ ref_img_ = <<0, 0>>
  /\ def_img_ = <<0, 0>>
  /\ setup_error = "none"
  /\ ref_img_name = "none"
  /\ def_img_name = "none"
  /\ prev_img_ = "none"
  /\ phase_cor_images = <<>>
  /\ frame_def_img = "none"
  /\ PlainParams

NextInit == Initialize

Next ==
  \/ Initialize
  \/ ExecuteBegin
  \/ \E p \in Procs(num_procs) : CorrelatePoint(p)
  \/ ExecuteEnd

SpecObst == InitObst /\ [][NextInit]_vars
SpecObstWide == InitObstWide /\ [][NextInit]_vars
SpecSeed == InitSeed /\ [][NextInit]_vars
SpecSeedObst == InitSeedObst /\ [][NextInit]_vars
Spec == InitPipeline /\ [][Next]_vars
SpecTracking == InitTracking /\ [][Next]_vars
SpecFrames == InitFrames /\ [][Next]_vars
SpecMotion == InitMotion /\ [][Next]_vars
SpecMasking == InitMasking /\ [][Next]_vars
SpecSerial == InitSerial /\ [][Next]_vars

\* one point on one worker in the generic routine with either projection
\* method, every optimization method, thresholds, a trajectory file, a skip
\* flag and a motion window set or not, with collaborators that may fail
InitProjection ==
  /\ Constructed(1, 1, NullMap, NullNeighbors)
  /\ correlation_routine_ = "GENERIC_ROUTINE"
  /\ initialization_method_ = "USE_FIELD_VALUES"
  /\ optimization_method_ \in OptimizationMethods
  /\ \E t \in Thresholds :
       /\ initial_gamma_threshold_ = t
       /\ final_gamma_threshold_ = t
       /\ path_distance_threshold_ = t
  /\ path_file_names_ \in SUBSET {0}
  /\ skip_solve_flags_ \in SUBSET {0}
  /\ motion_window_params_ \in MotionWindows(1)
  /\ post_processors_ = 0
  /\ projection_method_ \in {"DISPLACEMENT_BASED", "VELOCITY_BASED"}
  /\ env = "any"

SpecProjection == InitProjection /\ [][Next]_vars

\* one point on one worker under phase correlation, in both routines; the
\* caller replaces the images between the frames
InitPhase ==
  /\ Constructed(1, 1, NullMap, NullNeighbors)
  /\ correlation_routine_ \in {"GENERIC_ROUTINE", "TRACKING_ROUTINE"}
  /\ initialization_method_ = "USE_PHASE_CORRELATION"
  /\ optimization_method_ = "GRADIENT_BASED"
  /\ initial_gamma_threshold_ = -1
  /\ final_gamma_threshold_ = -1
  /\ path_distance_threshold_ = -1
  /\ path_file_names_ = {}
  /\ skip_solve_flags_ = {}
  /\ motion_window_params_ = NoWindows
  /\ post_processors_ = 0
  /\ env = "nominal"
  /\ projection_method_ = "DISPLACEMENT_BASED"

\* schemas of 1 .. MaxPoints points on one or more workers, in a build with
\* or without assertions, on which initialize() is called again
InitReinit ==
  /\ pc = "constructed"
  /\ \E n \in 1 .. MaxPoints, np \in 1 .. MaxProcs :
       Members(n, np, NullMap, NullNeighbors)
  /\ asserts_on \in BOOLEAN
  /\ params_given = NullParams
  /\ def_image_rotation_ = "ZERO_DEGREES"
  /\ ref_img_ = <<1, 1>>
  /\ def_img_ = <<1, 1>>
  /\ setup_error = "none"
  /\ ref_img_name = "ref"
  /\ def_img_name = "def_a"
  /\ prev_img_ = "ref"
  /\ phase_cor_images = <<>>
  /\ frame_def_img = "none"
  /\ PlainParams

NextReinit ==
  \/ Reinitialize
  \/ set_def_image
  \/ Next

SpecReinit == InitReinit /\ [][NextReinit]_vars

\* runs of the tracking routine over MaxPoints points with every neighbor-id
\* array and every initialization method, on one or more workers
InitTrackingSeeds ==
  /\ \E np \in 1 .. MaxProcs :
       \E nb \in NeighborArrays(MaxPoints) :
         Constructed(MaxPoints, np, NullMap, [isNull |-> FALSE, ids |-> nb])
  /\ correlation_routine_ = "TRACKING_ROUTINE"
  /\ initialization_method_ \in InitializationMethods
  /\ optimization_method_ = "GRADIENT_BASED"
  /\ initial_gamma_threshold_ = -1
  /\ final_gamma_threshold_ = -1
  /\ path_distance_threshold_ = -1
  /\ path_file_names_ = {}
  /\ skip_solve_flags_ = {}
  /\ motion_window_params_ = NoWindows
  /\ post_processors_ = 0
  /\ projection_method_ = "DISPLACEMENT_BASED"
  /\ env = "nominal"

SpecTrackingSeeds == InitTrackingSeeds /\ [][Next]_vars

NextPhase ==
  \/ set_def_image
  \/ set_ref_image
  \/ Next

SpecPhase == InitPhase /\ [][NextPhase]_vars

NextSetup ==
  \/ ConstructFromFiles
  \/ ConstructFromArrays
  \/ ConstructFromImages
  \/ set_def_image
  \/ set_ref_image
  \/ Next

SpecSetup == InitSetup /\ [][NextSetup]_vars

\* ------------------------------------------------------------------------
\* Properties of the distribution maps
\* ------------------------------------------------------------------------
Owners(map, id) ==
  UNION { { <<p, i>> : i \in { j \in 1 .. Len(map[p]) : map[p][j] = id } } :
            p \in DOMAIN map }

OneToOne(map, n) == \A id \in Ids(n) : Cardinality(Owners(map, id)) = 1

ObstConfigured == ~obstructing_subset_ids_.isNull

\* C1: the local id lists built by create_obstruction_dist_map partition
\* {0..N-1}: every id is in exactly one worker's list, exactly once.
C1_ObstructionMapPartitions ==
  (pc = "initialized" /\ ObstConfigured) => OneToOne(dist_map_, data_num_points_)

GraphNodes(m) == DOMAIN m \cup UNION { m[k] : k \in DOMAIN m }

Adjacent(m, a, b) ==
  \/ a = b
  \/ a \in DOMAIN m /\ b \in m[a]
  \/ b \in DOMAIN m /\ a \in m[b]

RECURSIVE Component(_, _)
Component(m, S) ==
  LET T == S \cup { b \in GraphNodes(m) : \E a \in S : Adjacent(m, a, b) } IN
  IF T = S THEN S ELSE Component(m, T)

GroupsAreComponents(m, groups) ==
  /\ \A i, j \in 1 .. Len(groups) : i # j => groups[i] \cap groups[j] = {}
  /\ \A a, b \in GraphNodes(m) :
       (\E i \in 1 .. Len(groups) : a \in groups[i] /\ b \in groups[i])
         <=> b \in Component(m, {a})

\* C2: for an occlusion relation of depth one the obstruction groups are the
\* connected components of the undirected occludes graph (pairwise disjoint,
\* two ids share a group iff they are connected through blocker lists).
C2_GroupsAreConnectedComponents ==
  (pc = "initialized" /\ ObstConfigured /\ DepthOne(obstructing_subset_ids_.map))
    => GroupsAreComponents(obstructing_subset_ids_.map, obstruction_groups)

\* C3: every blocker listed for a point is in every worker's local list that
\* holds the point, so the blocker is local wherever the point is masked.
C3_BlockersAreLocal ==
  (pc = "initialized" /\ ObstConfigured) =>
    \A q \in DOMAIN dist_map_ : \A p \in SeqToSet(dist_map_[q]) :
      HasBlockers(obstructing_subset_ids_.map, p)
        => obstructing_subset_ids_.map[p] \subseteq SeqToSet(dist_map_[q])

\* two workers both hold points, one of them a point blocked by another point
C3_Witness ==
  /\ pc = "initialized" /\ ObstConfigured /\ num_procs = 2
  /\ \A q \in DOMAIN dist_map_ : Len(dist_map_[q]) > 0
  /\ \E q \in DOMAIN dist_map_ : \E p \in SeqToSet(dist_map_[q]) :
       /\ HasBlockers(obstructing_subset_ids_.map, p)
       /\ obstructing_subset_ids_.map[p] # {p}
       /\ Len(obstruction_groups) >= 2

SeedChainsBuilt ==
  /\ pc = "initialized"
  /\ ~neighbor_ids.isNull
  /\ (obstructing_subset_ids_.isNull \/ DOMAIN obstructing_subset_ids_.map = {})

AllChains ==
  UNION { SeqToSet(local_seed_groupings[p]) : p \in DOMAIN local_seed_groupings }

C6_SeedMapOneToOne ==
  SeedChainsBuilt =>
    /\ OneToOne(seed_dist_map_, data_num_points_)
    /\ \A id \in Ids(data_num_points_) :
         Cardinality({ c \in AllChains : id \in SeqToSet(c) }) = 1
    /\ \A p \in DOMAIN local_seed_groupings :
         \A c \in SeqToSet(local_seed_groupings[p]) :
           SeqToSet(c) \subseteq SeqToSet(seed_dist_map_[p])

\* ------------------------------------------------------------------------
\* Properties of the frame execution
\* ------------------------------------------------------------------------
Masked == last_mask.gid # -1

\* C4: in tracking mode with an occlusion relation of depth one, whenever the
\* blocked pixels of a point are recomputed in a frame, every blocker of the
\* point is local to the worker and has completed its pass for that frame.
C4_BlockersSolvedBeforeMasking ==
  (correlation_routine_ = "TRACKING_ROUTINE" /\ ObstConfigured
     /\ DepthOne(obstructing_subset_ids_.map) /\ Masked) =>
    \A b \in DOMAIN last_mask.blockers :
      /\ last_mask.blockers[b].local
      /\ last_mask.blockers[b].solved_in = last_mask.frame

\* a blocked point is masked in the second frame, on one of two workers that
\* both hold points
C4_Witness ==
  /\ correlation_routine_ = "TRACKING_ROUTINE" /\ ObstConfigured
  /\ DepthOne(obstructing_subset_ids_.map) /\ Masked
  /\ num_procs = 2
  /\ \A q \in DOMAIN dist_map_ : Len(dist_map_[q]) > 0
  /\ last_mask.frame = 1
  /\ \E b \in DOMAIN last_mask.blockers : last_mask.blockers[b].solved_in = 1

PassDone == last_pass.ended # "none"

StatusWrites ==
  { i \in DOMAIN last_pass.events :
      last_pass.events[i][1] \in {"record_step", "record_failed_step", "write_status"} }

PassHadFault ==
  \E i \in DOMAIN last_pass.events : last_pass.events[i][2] = "fault"

\* C7: every pipeline pass writes the status of its point exactly once.
C7_StatusWrittenExactlyOnce ==
  PassDone => Cardinality(StatusWrites) = 1

\* C8: a fault raised by a collaborator at any stage of a pass ends as a
\* recorded status of the point, and the frame goes on (the remaining points,
\* the field pull and the frame advance are not lost).
C8_FaultBecomesStatus ==
  (PassDone /\ PassHadFault) =>
    /\ last_pass.ended = "returned"
    /\ Cardinality(StatusWrites) = 1
    /\ pc # "aborted"

FailedPass ==
  /\ PassDone
  /\ last_pass.ended = "returned"
  /\ last_pass.post.STATUS_FLAG \in FailureStatuses

SameFields(names) ==
  \A f \in names : last_pass.post[f] = last_pass.pre[f]

SentinelsSet ==
  /\ last_pass.post.SIGMA = -1
  /\ last_pass.post.GAMMA = -1
  /\ last_pass.post.MATCH = -1

LastEvent == last_pass.events[Len(last_pass.events)]

\* C9 (as stated): a pass that a stage ends with a failure status leaves
\* displacement, rotation and strains as they were before the pass and sets
\* sigma, gamma and match to -1, under every initialization strategy.
C9_FailedPassKeepsAllFields ==
  (FailedPass /\ LastEvent[1] = "record_failed_step")
    => (SameFields(DeformationFields) /\ SentinelsSet)

\* C9 (amended): a pass ended by record_failed_step leaves rotation and
\* strains as they were and sets sigma, gamma and match to -1; displacement
\* x/y are as they were too, except after a high final gamma under
\* USE_PHASE_CORRELATION, where the phase-correlation offset has been added
\* to them. A pass that commits with the status INITIALIZE_FAILED left by the
\* re-initialization of a two-stage optimizer stores the new solution.
C9_FailedPassKeepsFieldsButPhaseOffset ==
  FailedPass =>
    IF LastEvent[1] = "record_failed_step"
    THEN /\ SameFields(DeformationFields \ {"DISPLACEMENT_X", "DISPLACEMENT_Y"})
         /\ SentinelsSet
         /\ IF last_pass.post.STATUS_FLAG = "FRAME_FAILED_DUE_TO_HIGH_GAMMA"
                 /\ initialization_method_ = "USE_PHASE_CORRELATION"
            THEN /\ last_pass.post.DISPLACEMENT_X
                      = last_pass.pre.DISPLACEMENT_X + phase_cor_u[1]
                 /\ last_pass.post.DISPLACEMENT_Y
                      = last_pass.pre.DISPLACEMENT_Y + phase_cor_u[2]
            ELSE SameFields({"DISPLACEMENT_X", "DISPLACEMENT_Y"})
    ELSE /\ LastEvent = <<"record_step", "INITIALIZE_FAILED">>
         /\ optimization_method_
              \in {"GRADIENT_BASED_THEN_SIMPLEX", "SIMPLEX_THEN_GRADIENT_BASED"}
         /\ last_pass.post.MATCH = 0

\* a pass of the second frame fails in the optimizer for a point whose
\* displacement the first frame had set
C9_Witness ==
  /\ FailedPass
  /\ last_pass.frame = 1
  /\ last_pass.pre.DISPLACEMENT_X # 0
  /\ last_pass.post.STATUS_FLAG = "CORRELATION_FAILED"
  /\ last_pass.post.DISPLACEMENT_X = last_pass.pre.DISPLACEMENT_X

EventsHold(name, results) ==
  \E i \in DOMAIN last_pass.events :
    last_pass.events[i][1] = name /\ last_pass.events[i][2] \in results

\* C10: with the fast-then-robust optimizer, when the fast update does not
\* converge, the robust retry converges and no later gate fails, the status
\* recorded is a success status, never a failure status.
C10_RobustRetryRecordsSuccess ==
  (/\ PassDone
   /\ last_pass.ended = "returned"
   /\ optimization_method_ = "GRADIENT_BASED_THEN_SIMPLEX"
   /\ EventsHold("computeUpdateFast", {"CORRELATION_FAILED"})
   /\ EventsHold("computeUpdateRobust", {"CORRELATION_SUCCESSFUL"})
   /\ LastEvent[1] = "record_step")
    => last_pass.post.STATUS_FLAG \in SuccessStatuses

HighInitialGamma ==
  /\ PassDone
  /\ last_pass.ended = "returned"
  /\ initial_gamma_threshold_ # -1
  /\ last_pass.initial_gamma > initial_gamma_threshold_

C12_RecordStepRoundTrip ==
  [][\A p \in Procs(num_procs) :
       (pc = "correlating" /\ subset_index'[p] # subset_index[p]
          /\ last_pass'.args.called) =>
         LET a == last_pass'.args
             gid == last_pass'.gid
             r == local_fields'[p][gid]
         IN /\ \A f \in DeformationFields : r[f] = a.deformation[f]
            /\ r.SIGMA = a.sigma
            /\ r.MATCH = a.match
            /\ r.GAMMA = a.gamma
            /\ r.STATUS_FLAG = a.status
            /\ r.ITERATIONS = a.num_iterations
            /\ \A q \in Procs(num_procs) : \A id \in DOMAIN local_fields[q] :
                 <<q, id>> # <<p, gid>> => local_fields'[q][id] = local_fields[q][id]
            /\ fields_' = fields_]_vars

\* a step was committed in the second frame on one of two workers, for a
\* point whose fields the first frame had set
C12_Witness ==
  /\ PassDone
  /\ last_pass.args.called
  /\ num_procs = 2
  /\ last_pass.frame = 1
  /\ last_pass.pre.DISPLACEMENT_X # 0
  /\ last_pass.post.DISPLACEMENT_X = last_pass.args.deformation.DISPLACEMENT_X
  /\ last_pass.post.DISPLACEMENT_X # last_pass.pre.DISPLACEMENT_X

\* the assignments a frame can be run with: the distributed map, the seed
\* map, and the all-owned list held by every worker
Assignments ==
  {dist_map_, seed_dist_map_, [p \in Procs(num_procs) |-> all_map_]}

C14_ActiveAssignmentByStrategy ==
  (pc = "correlating" /\ num_procs > 1) =>
    /\ initialization_method_ = "USE_FIELD_VALUES" =>
         /\ this_proc_subset_global_ids_ = dist_map_
         /\ target_field_descriptor_ = "DISTRIBUTED"
    /\ initialization_method_ = "USE_NEIGHBOR_VALUES" =>
         /\ this_proc_subset_global_ids_ = seed_dist_map_
         /\ target_field_descriptor_ = "DISTRIBUTED_GROUPED_BY_SEED"
    /\ initialization_method_ = "USE_NEIGHBOR_VALUES_FIRST_STEP_ONLY" =>
         IF image_frame_ = 0
         THEN /\ this_proc_subset_global_ids_ = seed_dist_map_
              /\ target_field_descriptor_ = "DISTRIBUTED_GROUPED_BY_SEED"
         ELSE /\ this_proc_subset_global_ids_ = dist_map_
              /\ target_field_descriptor_ = "DISTRIBUTED"

\* the third frame of a first-step-only run on two workers whose seed map
\* differs from the distributed map
C14_Witness ==
  /\ pc = "correlating"
  /\ num_procs = 2
  /\ initialization_method_ = "USE_NEIGHBOR_VALUES_FIRST_STEP_ONLY"
  /\ image_frame_ = 2
  /\ seed_dist_map_ # dist_map_
  /\ this_proc_subset_global_ids_ = dist_map_

\* C15: in a single-worker run, under every initialization strategy and in
\* every frame, the active list is the all-owned list and holds every id of
\* {0..N-1}.
C15_SerialRunsAllOwned ==
  (pc = "correlating" /\ num_procs = 1) =>
    /\ this_proc_subset_global_ids_[0] = all_map_
    /\ target_field_descriptor_ = "ALL_OWNED"
    /\ SeqToSet(all_map_) = Ids(data_num_points_)
    /\ Len(all_map_) = data_num_points_

\* the third frame of a single-worker run under phase correlation, with an
\* all-owned list that the occlusion map has reordered
C15_Witness ==
  /\ pc = "correlating"
  /\ num_procs = 1
  /\ image_frame_ = 2
  /\ initialization_method_ = "USE_PHASE_CORRELATION"
  /\ all_map_ # AllOwnedList(data_num_points_)
  /\ this_proc_subset_global_ids_[0] = all_map_

Steps(name) == { i \in DOMAIN frame_log : frame_log[i] = name }

LocalPoints ==
  { <<p, i>> \in Procs(num_procs) \X (1 .. data_num_points_ * num_procs) :
      i <= Len(this_proc_subset_global_ids_[p]) }

\* the steps of a call that has not reached its end: one push, then passes
OpenFrameLog ==
  /\ Cardinality(Steps("sync_fields_all_to_dist")) = 1
  /\ \A i \in Steps("sync_fields_all_to_dist") :
       \A j \in Steps("generic_correlation_routine") : i < j
  /\ Steps("sync_fields_dist_to_all") = {}
  /\ Steps("post_processor_execute") = {}
  /\ Steps("update_image_frame") = {}

\* the steps of a finished call: one push, the passes of all local points,
\* one pull, every post-processor, the frame advance last
ClosedFrameLog ==
  /\ Cardinality(Steps("sync_fields_all_to_dist")) = 1
  /\ Cardinality(Steps("sync_fields_dist_to_all")) = 1
  /\ Cardinality(Steps("generic_correlation_routine")) = Cardinality(LocalPoints)
  /\ Cardinality(Steps("post_processor_execute")) = post_processors_
  /\ Steps("update_image_frame") = {Len(frame_log)}
  /\ \A i \in Steps("sync_fields_all_to_dist") :
       \A j \in Steps("generic_correlation_routine") : i < j
  /\ \A i \in Steps("generic_correlation_routine") :
       \A j \in Steps("sync_fields_dist_to_all") : i < j
  /\ \A i \in Steps("sync_fields_dist_to_all") :
       \A j \in Steps("post_processor_execute") : i < j

\* C16: in every execute_correlation call the field push comes first, then
\* the passes of all local points, then the field pull, then every attached
\* post-processor, then the frame advance; no post-processor runs before the
\* pull, and the frame counter grows by exactly one per call.
C16_FrameStepOrder ==
  /\ [](pc = "correlating" => OpenFrameLog)
  /\ []((pc = "initialized" /\ image_frame_ > 0) => ClosedFrameLog)
  /\ [][image_frame_' # image_frame_ =>
          (pc = "correlating" /\ pc' = "initialized"
             /\ image_frame_' = image_frame_ + 1)]_vars
  /\ [][(pc = "correlating" /\ pc' = "initialized") =>
          image_frame_' = image_frame_ + 1]_vars

\* two frames are done on two workers with two post-processors attached
C16_Witness ==
  /\ pc = "initialized"
  /\ image_frame_ = 2
  /\ num_procs = 2
  /\ post_processors_ = 2
  /\ Cardinality(Steps("post_processor_execute")) = 2
  /\ Cardinality(Steps("generic_correlation_routine")) >= 2

Resets(p, id) ==
  { i \in DOMAIN detector_log[p] : detector_log[p][i] = <<"reset", id>> }

Tests(p) ==
  { i \in DOMAIN detector_log[p] : detector_log[p][i][1] = "motion_detected" }

Whitelist == ValidCorrelationParams \cup ValidPostProcessorParams

\* C18: a construction whose parameter list holds at least one name outside
\* the two tables of valid names ends in a fatal configuration error,
\* whatever the other entries are; a construction whose list holds only
\* names of the tables (or that has no list) does not end in the
\* invalid-parameter error.
C18_UnknownNameIsFatal ==
  pc # "unconstructed" =>
    LET names == DOMAIN params_given.list IN
      /\ (\E name \in names : name \notin Whitelist) =>
           /\ pc = "failed"
           /\ setup_error \in {"Invalid parameter", "Global DIC is not enabled"}
      /\ (\A name \in names : name \in Whitelist) =>
           setup_error # "Invalid parameter"

\* a list with a valid correlation name, a valid post-processor name and a
\* misspelled name was refused
C18_Witness ==
  /\ pc = "failed"
  /\ setup_error = "Invalid parameter"
  /\ {"initialization_method", "post_process_vsg_strain", "initialisation_method"}
       \subseteq DOMAIN params_given.list

\* C19 (as stated): whenever execute_correlation runs a frame, the reference
\* and the deformed image have equal width and equal height, whichever
\* constructor built the schema and whatever set_def_image and set_ref_image
\* calls followed.
C19_ImagesMatchWhenFrameRuns ==
  pc = "correlating" => (ref_img_[1] = def_img_[1] /\ ref_img_[2] = def_img_[2])

\* C20: with a neighbor-id array and a non-empty occlusion map the seed map
\* is the map of create_obstruction_dist_map and no seed chain is built;
\* without a neighbor-id array the seed map is the distributed map; seed
\* chains are built only with a neighbor-id array and an occlusion map that
\* is absent or empty.
C20_SeedMapFallsBackToDistMap ==
  pc = "initialized" =>
    LET non_empty == ~obstructing_subset_ids_.isNull
                       /\ DOMAIN obstructing_subset_ids_.map # {}
    IN /\ (~neighbor_ids.isNull /\ non_empty) =>
            /\ seed_dist_map_ = dist_map_
            /\ seed_dist_map_ =
                 ObstructionLocalIds(data_num_points_, num_procs,
                                     obstructing_subset_ids_.map)
            /\ AllChains = {}
       /\ neighbor_ids.isNull =>
            /\ seed_dist_map_ = dist_map_
            /\ AllChains = {}
       /\ (~neighbor_ids.isNull /\ ~non_empty) =>
            /\ local_seed_groupings = LocalSeedGroupings(data_num_points_, num_procs,
                                                         neighbor_ids.ids)
            /\ seed_dist_map_ =
                 [p \in Procs(num_procs) |-> Concat(local_seed_groupings[p], 1)]
       /\ AllChains # {} => (~neighbor_ids.isNull /\ ~non_empty)

\* neighbor ids that chain the points, with an occlusion map that moves the
\* points between the workers: the seed map is the occlusion map's
C20_Witness ==
  /\ pc = "initialized"
  /\ num_procs = 2
  /\ ~neighbor_ids.isNull
  /\ \E i \in DOMAIN neighbor_ids.ids : neighbor_ids.ids[i] # -1
  /\ ~obstructing_subset_ids_.isNull
  /\ DOMAIN obstructing_subset_ids_.map # {}
  /\ seed_dist_map_ = dist_map_
  /\ dist_map_ # DefaultDistMap(data_num_points_, num_procs)

\* ------------------------------------------------------------------------
\* Properties of the stages of a pass
\* ------------------------------------------------------------------------
Calls(names) ==
  { i \in DOMAIN last_pass.events : last_pass.events[i][1] \in names }

PathGuesses == {"initial_guess_global", "initial_guess_local"}

GuessCalls ==
  PathGuesses \cup {"initialize_from_previous_frame", "phase_correlation_guess",
                    "initialize_from_neighbor"}

OptimizerCalls == {"computeUpdateFast", "computeUpdateRobust"}

\* the first initial guess of the pass returned without a failure
GuessSucceeded ==
  /\ PassDone
  /\ Calls(GuessCalls) # {}
  /\ last_pass.events[SetMin(Calls(GuessCalls))][2] \notin {"INITIALIZE_FAILED", "fault"}

\* C21: the stages of a pass run in the order motion gate, initial guess,
\* user skip, initial-gamma gate, optimize, final-gamma gate, path-distance
\* gate, commit; the pass stops at the first stage that fails or skips with
\* that stage's status, and no later stage runs: no optimizer call after a
\* no-motion skip, an initialization failure, a user skip or an initial-gamma
\* failure, and no path-distance test after a final-gamma failure.
C21_StagesInOrderStopAtFirstFailure ==
  PassDone =>
    LET ev == last_pass.events
        Motion == Calls({"motion_detected", "write_status"})
        Guess == Calls(GuessCalls)
        Opt == Calls(OptimizerCalls)
        Path == Calls({"closest_triad"})
    IN /\ \A i \in Motion : \A j \in DOMAIN ev \ Motion : i < j
       /\ Opt # {} => (Guess # {} /\ SetMin(Guess) < SetMin(Opt))
       /\ \A i \in Opt : \A j \in Path : i < j
       /\ StatusWrites \subseteq {Len(ev)}
       /\ last_pass.ended = "returned" =>
            (StatusWrites # {} /\ last_pass.post.STATUS_FLAG = LastEvent[2])
       /\ Calls({"write_status"}) # {} => Len(ev) = 1
       /\ \A i \in Guess :
            ev[i][2] \in {"INITIALIZE_FAILED", "fault"} => \A j \in Opt : j < i
       /\ LastEvent \in {<<"record_step", "FRAME_SKIPPED">>,
                         <<"record_failed_step", "INITIALIZE_FAILED">>,
                         <<"record_failed_step", "INITIALIZE_FAILED_BY_EXCEPTION">>}
            => Opt = {}
       /\ LastEvent = <<"record_failed_step", "FRAME_FAILED_DUE_TO_HIGH_GAMMA">>
            => Path = {}

\* the pass got past the initial-gamma gate
ReachedOptimize ==
  /\ GuessSucceeded
  /\ last_pass.gid \notin skip_solve_flags_
  /\ ~(initial_gamma_threshold_ # -1 /\ last_pass.initial_gamma > initial_gamma_threshold_)

\* C22: a pass calls the optimizer at most twice: exactly once under
\* GRADIENT_BASED and SIMPLEX; under the two-stage settings a second time,
\* with the other method and after a recomputed initial guess, only when the
\* first call did not succeed; a second call that does not succeed ends the
\* pass with its failure status.
C22_OptimizerCalledAtMostTwice ==
  PassDone =>
    LET ev == last_pass.events
        Opt == Calls(OptimizerCalls)
        first == SetMin(Opt)
        second == CHOOSE i \in Opt : i # first
        first_method ==
          IF optimization_method_ \in {"GRADIENT_BASED", "GRADIENT_BASED_THEN_SIMPLEX"}
          THEN "computeUpdateFast" ELSE "computeUpdateRobust"
        other_method ==
          IF first_method = "computeUpdateFast"
          THEN "computeUpdateRobust" ELSE "computeUpdateFast"
    IN /\ Cardinality(Opt) <= 2
       /\ ReachedOptimize => (Opt # {} /\ ev[first][1] = first_method)
       /\ optimization_method_ \in {"GRADIENT_BASED", "SIMPLEX"} => Cardinality(Opt) <= 1
       /\ Cardinality(Opt) = 2 =>
            /\ ev[first][2] # "CORRELATION_SUCCESSFUL"
            /\ ev[second][1] = other_method
            /\ \E g \in Calls(GuessCalls) : first < g /\ g < second
            /\ ev[second][2] # "CORRELATION_SUCCESSFUL" =>
                 /\ second = Len(ev) - 1
                 /\ LastEvent = <<"record_failed_step",
                                  IF ev[second][2] = "fault"
                                  THEN "CORRELATION_FAILED_BY_EXCEPTION" ELSE ev[second][2]>>

\* a two-stage pass whose second optimizer call failed too
C22_Witness ==
  /\ PassDone
  /\ optimization_method_ = "SIMPLEX_THEN_GRADIENT_BASED"
  /\ Cardinality(Calls(OptimizerCalls)) = 2
  /\ EventsHold("computeUpdateRobust", {"CORRELATION_FAILED"})
  /\ EventsHold("computeUpdateFast", {"fault"})
  /\ last_pass.post.STATUS_FLAG = "CORRELATION_FAILED_BY_EXCEPTION"

\* C23: under every initial-guess route, when an initial-gamma threshold is
\* set and the gamma of the initial guess exceeds it, the optimizer is not
\* called and the pass ends with INITIALIZE_FAILED (passes of points flagged
\* to skip the solve aside).
C23_HighGuessGammaStopsBeforeOptimizer ==
  (/\ GuessSucceeded
   /\ last_pass.gid \notin skip_solve_flags_
   /\ initial_gamma_threshold_ # -1
   /\ last_pass.guess_gamma > initial_gamma_threshold_)
    => /\ Calls(OptimizerCalls) = {}
       /\ LastEvent = <<"record_failed_step", "INITIALIZE_FAILED">>

\* the source the priority of the routes gives to the pass
GuessSource ==
  IF last_pass.gid \in path_file_names_ THEN PathGuesses
  ELSE IF initialization_method_ = "USE_FIELD_VALUES"
          \/ (initialization_method_ = "USE_NEIGHBOR_VALUES_FIRST_STEP_ONLY"
                /\ last_pass.frame > 0)
  THEN {"initialize_from_previous_frame"}
  ELSE IF initialization_method_ = "USE_PHASE_CORRELATION"
  THEN {"phase_correlation_guess"}
  ELSE {"initialize_from_neighbor"}

\* C24: the initial guess of a pass comes from exactly one source, chosen by
\* priority: the trajectory file of the point if it has one, else the
\* previous-frame fields under a field-based strategy, else the
\* phase-correlation offset, else the neighbor.
C24_OneGuessSourceByPriority ==
  PassDone =>
    \A i \in Calls(GuessCalls) : last_pass.events[i][1] \in GuessSource

\* C25: a point with a trajectory file is searched over the whole trajectory
\* in frame 0 and in every frame after a pass of the point that ended in a
\* failure status, and near its previous solution in every other frame.
C25_GlobalSearchOnlyAfterFailure ==
  (PassDone /\ Calls(PathGuesses) # {}) =>
    (Calls({"initial_guess_global"}) # {}
       <=> (last_pass.frame = 0 \/ last_pass.pre.STATUS_FLAG \in FailureStatuses))

FinalGammaRejected ==
  /\ PassDone
  /\ last_pass.ended = "returned"
  /\ final_gamma_threshold_ # -1
  /\ last_pass.final_gamma > final_gamma_threshold_

\* C26: when the final-gamma gate rejects a point the status is
\* FRAME_FAILED_DUE_TO_HIGH_GAMMA, the fit of the optimizer is not stored
\* (rotation and strains are as before the pass), and displacement x/y are
\* the previous values plus the phase-correlation offset under
\* USE_PHASE_CORRELATION and the previous values under every other strategy.
C26_HighFinalGammaKeepsPreviousFields ==
  FinalGammaRejected =>
    /\ LastEvent = <<"record_failed_step", "FRAME_FAILED_DUE_TO_HIGH_GAMMA">>
    /\ last_pass.post.STATUS_FLAG = "FRAME_FAILED_DUE_TO_HIGH_GAMMA"
    /\ Calls({"closest_triad", "record_step"}) = {}
    /\ SameFields(DeformationFields \ {"DISPLACEMENT_X", "DISPLACEMENT_Y"})
    /\ IF initialization_method_ = "USE_PHASE_CORRELATION"
       THEN /\ last_pass.post.DISPLACEMENT_X
                 = last_pass.pre.DISPLACEMENT_X + phase_cor_u[1]
            /\ last_pass.post.DISPLACEMENT_Y
                 = last_pass.pre.DISPLACEMENT_Y + phase_cor_u[2]
       ELSE SameFields({"DISPLACEMENT_X", "DISPLACEMENT_Y"})

\* under phase correlation, a fit of the second frame is rejected for a
\* point that the first frame had moved
C26_Witness ==
  /\ FinalGammaRejected
  /\ initialization_method_ = "USE_PHASE_CORRELATION"
  /\ last_pass.frame = 1
  /\ last_pass.pre.ROTATION_Z # 0
  /\ last_pass.post.DISPLACEMENT_X = last_pass.pre.DISPLACEMENT_X + phase_cor_u[1]
  /\ last_pass.post.DISPLACEMENT_X # last_pass.pre.DISPLACEMENT_X

NoMotionPass ==
  /\ PassDone
  /\ Calls({"write_status"}) # {}

C28_UserSkipRecordsSkipped ==
  (GuessSucceeded /\ last_pass.gid \in skip_solve_flags_) =>
    /\ Calls(OptimizerCalls) = {}
    /\ last_pass.ended = "returned"
    /\ LastEvent = <<"record_step", "FRAME_SKIPPED">>
    /\ last_pass.post.STATUS_FLAG = "FRAME_SKIPPED"
    /\ last_pass.post.SIGMA \in {1}
    /\ last_pass.post.GAMMA \in {last_pass.initial_gamma, 2, 10}

\* ------------------------------------------------------------------------
\* Masking of occluded pixels (tracking routine)
\* ------------------------------------------------------------------------

\* the pixels the blockers of gid cover, from the field values worker p holds
Footprints(p, gid) ==
  UNION { deformed_shapes(b, local_deformation(p, b), centroid(b)[1], centroid(b)[2],
                          obstruction_skin_factor_) :
            b \in obstructing_subset_ids_.map[gid] }

\* a step that runs the pass of one point
PassStep == frame_log' = Append(frame_log, "generic_correlation_routine")

\* C29: in the tracking routine the step that runs the pass of a point with a
\* non-empty blocker list leaves, as the blocked-pixel set of that point's
\* objective, exactly the union of the footprints of its blockers computed
\* from the field values and the skin factor of that moment (nothing of the
\* set it had before remains) and changes no other set; the pass of a point
\* with no entry or an empty list, with a null map, or in the generic routine
\* changes no blocked-pixel set.
C29_MaskIsReplacedByCurrentFootprints ==
  [][PassStep =>
       LET p == last_pass'.proc
           listed == this_proc_subset_global_ids_[p][subset_index[p] + 1]
           old == pixels_blocked_by_other_subsets
           new == pixels_blocked_by_other_subsets'
       IN IF /\ correlation_routine_ = "TRACKING_ROUTINE"
             /\ ~obstructing_subset_ids_.isNull
             /\ HasBlockers(obstructing_subset_ids_.map, listed)
          THEN \E i \in 1 .. Len(obj_vec_[p]) :
                 /\ obj_vec_[p][i] = listed
                 /\ new[p][i] = Footprints(p, listed)
                 /\ \A q \in Procs(num_procs) : \A j \in 1 .. Len(old[q]) :
                      <<q, j>> # <<p, i>> => new[q][j] = old[q][j]
          ELSE new = old]_vars

\* in frame 1 a masked point whose set holds the footprints of frame 1 and no
\* pixel of the footprints it had in frame 0
C29_Witness ==
  /\ pc = "correlating"
  /\ image_frame_ = 1
  /\ correlation_routine_ = "TRACKING_ROUTINE"
  /\ \E p \in Procs(num_procs) : \E i \in 1 .. Len(obj_vec_[p]) :
       LET gid == obj_vec_[p][i] IN
       /\ i <= subset_index[p]
       /\ HasBlockers(obstructing_subset_ids_.map, gid)
       /\ pixels_blocked_by_other_subsets[p][i] # {}
       /\ pixels_blocked_by_other_subsets[p][i] = Footprints(p, gid)
       /\ \A b \in obstructing_subset_ids_.map[gid] :
            deformed_shapes(b, FitDeformation(0, "computeUpdateFast"),
                            centroid(b)[1], centroid(b)[2], obstruction_skin_factor_)
              \cap pixels_blocked_by_other_subsets[p][i] = {}

\* ------------------------------------------------------------------------
\* Order of the local id lists of create_obstruction_dist_map
\* ------------------------------------------------------------------------

\* the local id lists create_obstruction_dist_map leaves: the list of every
\* worker, and in a serial run the list of all ids too
ObstructionLists ==
  { dist_map_[q] : q \in DOMAIN dist_map_ }
    \cup (IF num_procs = 1 THEN {all_map_} ELSE {})

\* in list, every id without blockers stands before every id with blockers
UnblockedFirst(list) ==
  \A i, j \in 1 .. Len(list) :
    (~HasBlockers(obstructing_subset_ids_.map, list[i])
       /\ HasBlockers(obstructing_subset_ids_.map, list[j])) => i < j

\* in list, every blocker of an id of the list stands before that id
BlockersFirst(list) ==
  \A j \in 1 .. Len(list) :
    HasBlockers(obstructing_subset_ids_.map, list[j]) =>
      \A b \in obstructing_subset_ids_.map[list[j]] :
        \E i \in 1 .. (j - 1) : list[i] = b

\* C30: once initialize() has run with an occlusion map, in every local id
\* list every id with no blocker entry or an empty blocker list stands before
\* every id with a non-empty blocker list; and when no blocker is itself
\* blocked, every blocker stands before each point it blocks.
C30_UnblockedIdsPrecedeBlockedIds ==
  (pc = "initialized" /\ ObstConfigured) =>
    \A list \in ObstructionLists :
      /\ UnblockedFirst(list)
      /\ DepthOne(obstructing_subset_ids_.map) => BlockersFirst(list)

\* a depth-one map and a list in which a blocked id stands after its
\* blocker although the blocker has the larger id
C30_Witness ==
  /\ pc = "initialized"
  /\ ObstConfigured
  /\ DepthOne(obstructing_subset_ids_.map)
  /\ \E list \in ObstructionLists : \E i, j \in 1 .. Len(list) :
       /\ i < j
       /\ list[i] > list[j]
       /\ list[i] \in obstructing_subset_ids_.map[list[j]]

\* ------------------------------------------------------------------------
\* Order of the passes and the neighbor a guess is copied from
\* ------------------------------------------------------------------------

\* the last pass took its guess from the neighbor of its point
CopiedFromNeighbor ==
  /\ last_pass.ended # "none"
  /\ Calls({"initialize_from_neighbor"}) # {}
  /\ ~neighbor_ids.isNull
  /\ neighbor_ids.ids[last_pass.gid] # -1

\* C31: whenever a pass takes its guess from the neighbor of its point, the
\* point named by the stored neighbor-id has completed its pass of the same
\* frame on the same worker, in single-worker and in multi-worker runs.
C31_NeighborSolvedBeforeCopy ==
  CopiedFromNeighbor =>
    pass_frame[last_pass.proc][neighbor_ids.ids[last_pass.gid]] = last_pass.frame

\* ------------------------------------------------------------------------
\* The images of the whole-image phase correlation
\* ------------------------------------------------------------------------

\* C32: under phase correlation the offset of frame 0 is estimated between
\* the reference image and the first deformed image, and the offset of every
\* frame k >= 1 between the deformed image processed in frame k-1 and the
\* deformed image of frame k, in the generic and in the tracking routine.
C32_PhaseCorrelationUsesPreviousDeformedImage ==
  (pc = "correlating" /\ initialization_method_ = "USE_PHASE_CORRELATION") =>
    phase_cor_images = IF image_frame_ = 0 THEN <<ref_img_name, def_img_name>>
                       ELSE <<frame_def_img, def_img_name>>

\* ------------------------------------------------------------------------
\* The previous-frame snapshot of the velocity-based projection
\* ------------------------------------------------------------------------

\* the last pass reached the success step and stored its fit there (the
\* record_step call of a skipped solve carries the status FRAME_SKIPPED)
Committed ==
  /\ last_pass.ended = "returned"
  /\ last_pass.args.called
  /\ last_pass.args.status # "FRAME_SKIPPED"

\* C33: with the velocity-based projection, after a pass that committed a
\* fit the previous-frame record of the point holds the field values the
\* point had before the commit; after a pass that ended in a failure or a
\* skip the previous-frame record of the point is what it was.
C33_CommitSnapshotsFieldsFirst ==
  (projection_method_ = "VELOCITY_BASED" /\ last_pass.ended # "none") =>
    IF Committed THEN last_pass.post_nm1 = last_pass.pre
    ELSE last_pass.post_nm1 = last_pass.pre_nm1

\* a commit in a later frame: the snapshot holds the fit of the frame
\* before, which differs from the fit just stored and from the old snapshot
C33_Witness ==
  /\ projection_method_ = "VELOCITY_BASED"
  /\ Committed
  /\ last_pass.frame > 0
  /\ last_pass.post_nm1 = last_pass.pre
  /\ last_pass.post_nm1 # last_pass.post
  /\ last_pass.post_nm1 # last_pass.pre_nm1

\* ------------------------------------------------------------------------
\* initialize() on an initialized schema
\* ------------------------------------------------------------------------

\* a step that is an initialize() call on a schema initialized before
RepeatedInitialize ==
  /\ is_initialized_
  /\ Len(initialize_calls') = Len(initialize_calls) + 1

\* C34: an initialize() call on an initialized schema, with any arguments,
\* leaves the point count, the subset size, the distributed, seed and
\* all-owned maps, the field stores and the per-point helper slots as they
\* were.
C34_RepeatedInitializeChangesNothing ==
  [][RepeatedInitialize =>
       UNCHANGED <<data_num_points_, subset_dim_, dist_map_, seed_dist_map_, all_map_,
                   fields_, local_fields, local_fields_nm1, opt_initializers_,
                   motion_detectors_, is_initialized_>>]_vars

\* after a frame that left fitted values in the field store, a second
\* initialize() call with another point count and another subset size
C34_Witness ==
  /\ pc = "initialized"
  /\ Len(initialize_calls) = 2
  /\ initialize_calls[2].num_pts # data_num_points_
  /\ initialize_calls[2].subset_size # subset_dim_
  /\ image_frame_ > 0
  /\ \E id \in Ids(data_num_points_) : fields_[id].DISPLACEMENT_X # 0

\* ------------------------------------------------------------------------
\* The static objectives of the tracking routine
\* ------------------------------------------------------------------------

\* C35: in the tracking routine, in every frame, under every initialization
\* method and worker count, the objective at index i of a worker is bound to
\* the i-th id of that worker's active list, also after the active list has
\* changed from the seed map to the distributed map.
C35_ObjectiveBoundToListedPoint ==
  (correlation_routine_ = "TRACKING_ROUTINE" /\ pc = "correlating") =>
    \A p \in Procs(num_procs) : obj_vec_[p] = this_proc_subset_global_ids_[p]

\* ------------------------------------------------------------------------
\* The active lists of a frame
\* ------------------------------------------------------------------------

\* the workers whose active list holds id
Processors(id) ==
  { p \in Procs(num_procs) : id \in SeqToSet(this_proc_subset_global_ids_[p]) }

\* C36: in every frame, under every initialization method and worker count,
\* the active lists of the workers partition the ids 0 .. N-1: every id is
\* in the list of exactly one worker, once.
C36_ActiveListsPartitionIds ==
  pc = "correlating" =>
    /\ \A id \in Ids(data_num_points_) : Cardinality(Processors(id)) = 1
    /\ \A p \in Procs(num_procs) :
         /\ SeqToSet(this_proc_subset_global_ids_[p]) \subseteq Ids(data_num_points_)
         /\ Cardinality(SeqToSet(this_proc_subset_global_ids_[p]))
              = Len(this_proc_subset_global_ids_[p])



\* C37: whenever a pass reaches the commit step and stores a fit, the status
\* it stores is a success status and never a failure status; with a two-stage
\* optimizer a recomputed guess that reports failure does not lead to a
\* commit that carries INITIALIZE_FAILED.
C37_CommittedStatusIsSuccess ==
  Committed =>
    /\ last_pass.args.status \in SuccessStatuses
    /\ last_pass.post.STATUS_FLAG \in SuccessStatuses
    /\ last_pass.post.STATUS_FLAG \notin FailureStatuses


\* the loops of create_obstruction_dist_map have ended
ScanReturned == obst_locals.at \in {"return", "returned"}

\* a step that reset dep_it marked an entry that was not assigned before
RestartMarksNewEntry ==
  (obst_locals'.at = "search_it" /\ obst_locals'.reset_by # -1) =>
    /\ obst_locals'.reset_by \notin obst_locals.assigned_to_a_group
    /\ obst_locals'.assigned_to_a_group =
         obst_locals.assigned_to_a_group \cup {obst_locals'.reset_by}

\* C38: create_obstruction_dist_map terminates for every finite occlusion
\* map and every worker count P >= 1: every restart of the fixed-point
\* expansion marks a map entry that was not assigned before as assigned, so
\* the restarts are finitely many, and the round-robin and greedy loops end.
C38_ObstructionDistMapTerminates ==
  /\ <>ScanReturned
  /\ [][RestartMarksNewEntry]_vars

\* a call that restarted twice and built a group for one of two workers
\* has returned, and initialize() has stored its lists
C38_Witness ==
  /\ obst_locals.at = "returned"
  /\ dist_map_ = obst_locals.local_ids
  /\ num_procs = 2
  /\ Cardinality(obst_locals.assigned_to_a_group) >= 2
  /\ Len(obst_locals.obstruction_groups) >= 1

====
